---- MODULE Spec2Model ----
(***************************************************************************)
(* EarnNest backend: the auto-import workflow (parse content -> suggestion *)
(* -> approve / reject), direct transaction entry and budgets, as a state  *)
(* machine over the document-store collections.                            *)
(*                                                                         *)
(* Conventions                                                             *)
(*  - money is an integer number of rupees (round(v, 2) is the identity on *)
(*    such values); the amount of a POST /transactions body is a float     *)
(*    [rupees, mills], rupees + mills/1000 with mills below half a paisa;  *)
(*    confidences are integers in tenths (0.3 is 3);                       *)
(*  - uuid4() is modelled as the next unused index of the collection the   *)
(*    document goes to;                                                    *)
(*  - Python's None is the string "None"; a dict is a TLA+ function whose  *)
(*    DOMAIN is its key set;                                               *)
(*  - every request handler is one atomic action and leaves its HTTP       *)
(*    answer in the variable response;                                     *)
(*  - time is an integer number of minutes; the store compares the dates  *)
(*    it holds with the date of a query.                                   *)
(***************************************************************************)
EXTENDS Integers, Sequences, FiniteSets, TLC

VARIABLES
    transactions,            \* db.transactions, in insertion order
    budgets,                 \* db.budgets, in insertion order
    parsed_transactions,     \* db.parsed_transactions
    transaction_suggestions, \* db.transaction_suggestions
    learning_feedback,       \* db.learning_feedback
    total_earnings,          \* db.users[u].total_earnings
    llm_calls,               \* number of chat.send_message calls made so far
    response,                \* the answer of the last request handled
    now,                     \* datetime.now(timezone.utc), in minutes
    potential_duplicates,    \* "potential_duplicates" of the last parse answer
    user_docs,               \* db.users by email: the fields login_user reads and writes
    calls,                   \* the requests being handled step by step, by worker
    user_hustles,            \* db.user_hustles by id: the applicants list
    hustle_applications,     \* db.hustle_applications, in insertion order
    applies,                 \* the apply requests being handled step by step, by worker
    coin_users,              \* db.users by id: the EarnCoins fields
    earncoins_transactions,  \* db.earncoins_transactions, in insertion order
    referrals,               \* db.referrals, in insertion order
    user_streaks,            \* db.user_streaks of type daily_login, by user id
    user_achievements        \* db.user_achievements: <<user id, achievement id>>

vars == <<transactions, budgets, parsed_transactions, transaction_suggestions,
          learning_feedback, total_earnings, llm_calls, response, now,
          potential_duplicates, user_docs, calls,
          user_hustles, hustle_applications, applies,
          coin_users, earncoins_transactions, referrals, user_streaks,
          user_achievements>>

rewards == <<coin_users, earncoins_transactions, referrals, user_streaks,
             user_achievements>>

community == <<user_hustles, hustle_applications, applies>>

\* the community and reward collections, which the finance routes leave alone
engagement == <<community, rewards>>

data == <<transactions, budgets, parsed_transactions, transaction_suggestions,
          learning_feedback, total_earnings, llm_calls>>

----------------------------------------------------------------------------
(* Bounds of the model *)

MaxTransactions == 2
MaxBudgets == 1
MaxSuggestions == 1
MaxFeedback == 2
MaxFailedLogins == 6
MaxLoginClock == 60
MaxImports == 2
MaxCoinTransactions == 6
MaxReferrals == 1
MaxStreakDays == 8

(* Program constants *)

MaxAmount == 10000000
MinContentLen == 10
MaxContentLen == 5000
DescriptionCut == 100
DuplicateLimit == 10
DayHours == 24
WeekHours == 168
MAX_LOGIN_ATTEMPTS == 5
MinCoverLen == 20
MinPasswordScore == 40
MinutesPerDay == 1440
ReferrerCoins == 50
RefereeCoins == 25
WelcomeCoins == 25
EasyCoins == 10
MaxCoverLen == 500
LOCKOUT_DURATION == 30

None == "None"
Users == {"u1", "u2"}
Hustles == {"h1", "h2"}

\* the accounts that exist from the start, by user id
EmailOf(user_id) ==
    IF user_id = "u1" THEN "asha@earnnest.in" ELSE "off@earnnest.in"
CurrentMonth == "2026-11"

Min(a, b) == IF a <= b THEN a ELSE b

----------------------------------------------------------------------------
(* security.sanitize_input: removes markup from a text.  On the category   *)
(* names of the model it changes exactly the one that carries a tag.       *)

sanitize_input(text) ==
    IF text = "<b>Food</b>" THEN "Food" ELSE text

----------------------------------------------------------------------------
(* Text.  A content string is [lead, core, trail, words, head]: lead and   *)
(* trail count its leading and trailing whitespace characters, core the    *)
(* characters from its first to its last non-blank one, words the words of *)
(* the core, head how many of them lie within the first DescriptionCut     *)
(* characters of the core.                                                 *)

Content(lead, core, trail, words, head) ==
    [lead |-> lead, core |-> core, trail |-> trail, words |-> words, head |-> head]

len(v) == v.lead + v.core + v.trail

strip(v) == [v EXCEPT !.lead = 0, !.trail = 0]

\* str.lower() on the words of the model
lower(w) ==
    CASE w = "Rs." -> "rs."
      [] w = "INR" -> "inr"
      [] w = "Amount:" -> "amount:"
      [] w = "Amazon" -> "amazon"
      [] w = "You" -> "you"
      [] w = "Upwork" -> "upwork"
      [] w = "Salary" -> "salary"
      [] OTHER -> w

\* float(amount_str.replace(',', '')) for the digit groups of the model
NumberWords == {"500", "45,000", "250", "0"}

float(w) ==
    CASE w = "500" -> 500
      [] w = "45,000" -> 45000
      [] w = "250" -> 250
      [] w = "0" -> 0

\* (?:rs\.?|inr), case-insensitive
IsCurrency(w) == lower(w) \in {"rs", "rs.", "inr"}

\* the keywords of the two lists and of income_sources that occur in a word
KeywordsIn(w) ==
    CASE lower(w) = "debited" -> {"debit"}
      [] lower(w) = "credited" -> {"credit"}
      [] lower(w) = "temporary" -> {"temp", "temporary"}
      [] lower(w) \in {"credit", "received", "salary", "payment", "refund",
                       "cashback", "debit", "paid", "purchase", "spent",
                       "withdraw", "freelance", "project", "scholarship",
                       "dividend", "interest", "hourly", "upwork"} -> {lower(w)}
      [] OTHER -> {}

\* `keyword in content_lower`
Occurs(keyword, words) == \E i \in 1..Len(words) : keyword \in KeywordsIn(words[i])

income_keywords == {"credit", "received", "salary", "payment", "refund", "cashback"}
expense_keywords == {"debit", "paid", "purchase", "spent", "withdraw"}

\* self.income_sources, in dict order
income_source_names == <<"freelance", "salary", "scholarship", "investment", "part_time">>

income_sources(source) ==
    CASE source = "freelance" -> {"freelance", "upwork", "fiverr", "freelancer",
                                  "project", "gig", "consultation"}
      [] source = "salary" -> {"salary", "wage", "payroll", "employment",
                               "monthly pay", "bi-weekly", "weekly pay"}
      [] source = "scholarship" -> {"scholarship", "grant", "bursary", "fellowship",
                                    "education aid", "student aid"}
      [] source = "investment" -> {"dividend", "interest", "investment", "stock",
                                   "mutual fund", "sip", "return"}
      [] source = "part_time" -> {"part time", "part-time", "hourly", "temp",
                                  "temporary", "casual work"}

\* the first source, in dict order, one of whose keywords occurs; None if none
FirstSource(words) ==
    LET hit == {i \in 1..Len(income_source_names) :
                  \E k \in income_sources(income_source_names[i]) : Occurs(k, words)}
    IN IF hit = {} THEN None
       ELSE income_source_names[CHOOSE i \in hit : \A j \in hit : i <= j]

\* self.bank_patterns["amount"]: the digit group of the leftmost match of
\* pattern k in the words, None when the pattern does not match
AmountMatch(k, words) ==
    LET n == Len(words)
        at(i) == IF i <= n THEN words[i] ELSE ""
        hits ==
          CASE k = 1 -> {i \in 1..n : IsCurrency(at(i)) /\ at(i + 1) \in NumberWords}
            [] k = 2 -> {i \in 1..n : at(i) \in NumberWords /\ IsCurrency(at(i + 1))}
            [] k = 3 -> {i \in 1..n :
                           /\ lower(at(i)) \in {"amount", "amount:"}
                           /\ \/ at(i + 1) \in NumberWords
                              \/ IsCurrency(at(i + 1)) /\ at(i + 2) \in NumberWords}
        first == CHOOSE i \in hits : \A j \in hits : i <= j
    IN IF hits = {} THEN None
       ELSE CASE k = 1 -> at(first + 1)
              [] k = 2 -> at(first)
              [] k = 3 -> IF at(first + 1) \in NumberWords THEN at(first + 1)
                          ELSE at(first + 2)

\* content[:100] + "..." if len(content) > 100 else content
Description(content) ==
    [words |-> SubSeq(content.words, 1, content.head),
     dots |-> len(content) > DescriptionCut]

\* mutant: the confidence stays at its initial value
_fallback_parsing_flat(content, content_type) ==
    LET is_income == \E kw \in income_keywords : Occurs(kw, content.words)
        is_expense == \E kw \in expense_keywords : Occurs(kw, content.words)
        matched == {k \in 1..3 : AmountMatch(k, content.words) # None}
        k0 == CHOOSE k \in matched : \A j \in matched : k <= j
    IN [transaction_type |-> IF is_income THEN "income"
                             ELSE IF is_expense THEN "expense" ELSE "unknown",
        amount |-> IF matched = {} THEN 0 ELSE float(AmountMatch(k0, content.words)),
        merchant_or_source |-> "Unknown",
        description |-> Description(content),
        category |-> IF is_income THEN "Income"
                     ELSE IF is_expense THEN "Expense" ELSE "Other",
        income_source |-> IF is_income THEN FirstSource(content.words) ELSE None,
        date |-> "today",
        is_duplicate_likely |-> FALSE,
        parsing_confidence |-> 3]

\* AutoImportService._fallback_parsing
_fallback_parsing(content, content_type) ==
    LET matched == {k \in 1..3 : AmountMatch(k, content.words) # None}
        k0 == CHOOSE k \in matched : \A j \in matched : k <= j
        is_income == \E kw \in income_keywords : Occurs(kw, content.words)
        is_expense == \E kw \in expense_keywords : Occurs(kw, content.words)
    IN [transaction_type |-> IF is_income THEN "income"
                             ELSE IF is_expense THEN "expense" ELSE "unknown",
        amount |-> IF matched = {} THEN 0 ELSE float(AmountMatch(k0, content.words)),
        merchant_or_source |-> "Unknown",
        description |-> Description(content),
        category |-> IF is_income THEN "Income"
                     ELSE IF is_expense THEN "Expense" ELSE "Other",
        income_source |-> IF is_income THEN FirstSource(content.words) ELSE None,
        date |-> "today",
        is_duplicate_likely |-> FALSE,
        parsing_confidence |-> IF matched = {} THEN 3 ELSE 6]

----------------------------------------------------------------------------
(* The LLM's answer to chat.send_message: the call raises, or returns a    *)
(* text [fence, json, obj]: fence is "json" for a ```json ... ``` wrapper, *)
(* "plain" for a ``` ... ``` wrapper and "none" for no wrapper; json tells *)
(* whether the wrapped body is a JSON object, obj is that object.          *)

RequiredFields == {"transaction_type", "amount", "merchant_or_source", "description"}

Get(d, k, default) == IF k \in DOMAIN d THEN d[k] ELSE default

Without(d, k) == [x \in DOMAIN d \ {k} |-> d[x]]

\* dict.update
Update(d, c) == [k \in DOMAIN d \cup DOMAIN c |-> IF k \in DOMAIN c THEN c[k] ELSE d[k]]

\* mutant: the required fields are not checked
_parse_ai_response_unchecked(llm) ==
    IF llm.json /\ llm.fence \in {"none", "json"}
    THEN [ok |-> TRUE, data |-> llm.obj]
    ELSE [ok |-> FALSE, data |-> <<>>]

\* AutoImportService._parse_ai_response: [ok, data]; ok = FALSE is the
\* ValueError("Invalid AI response format")
_parse_ai_response(llm) ==
    LET \* only a leading ```json is cut off, so a plain ``` stays in the text
        loads_ok == llm.json /\ llm.fence \in {"none", "json"}
    IN IF loads_ok /\ RequiredFields \subseteq DOMAIN llm.obj
       THEN [ok |-> TRUE, data |-> llm.obj]
       ELSE [ok |-> FALSE, data |-> <<>>]

\* mutant: no source is ever detected
categorize_income_source_none(description, merchant) == None

\* AutoImportService.categorize_income_source: the keywords are looked up in
\* "{description} {merchant}".lower()
categorize_income_source(description, merchant) ==
    FirstSource(Append(description.words, merchant))

\* AutoImportService.get_categorization_suggestions; confidence in tenths
get_categorization_suggestions(parsed_data) ==
    LET transaction_type == Get(parsed_data, "transaction_type", None)
        description == Get(parsed_data, "description", [words |-> <<>>, dots |-> FALSE])
        merchant == Get(parsed_data, "merchant_or_source", "")
        detected_source == categorize_income_source(description, merchant)
    IN CASE transaction_type = "income" ->
              [categories |-> <<"Salary", "Freelance", "Investment", "Other Income">>,
               sources |-> IF detected_source # None THEN <<detected_source>>
                           ELSE income_source_names,
               confidence |-> IF detected_source # None THEN 8 ELSE 4]
         [] transaction_type = "expense" ->
              [categories |-> <<"Food", "Transportation", "Shopping", "Entertainment",
                                "Utilities", "Rent", "Healthcare", "Education", "Other">>,
               sources |-> <<>>,
               confidence |-> 6]
         [] OTHER -> [categories |-> <<>>, sources |-> <<>>, confidence |-> 0]

\* AutoImportService._calculate_confidence_score, in tenths
_calculate_confidence_score(content, parsed_data) ==
    LET base == Get(parsed_data, "parsing_confidence", 0)
        a == IF Get(parsed_data, "amount", 0) > 0 THEN 2 ELSE 0
        m == IF /\ Get(parsed_data, "merchant_or_source", "") # ""
                /\ parsed_data["merchant_or_source"] # "Unknown" THEN 2 ELSE 0
        t == IF Get(parsed_data, "transaction_type", None) \in {"income", "expense"}
             THEN 1 ELSE 0
    IN Min(base + a + m + t, 10)

\* AutoImportService.parse_content
parse_content(content, content_type, llm) ==
    LET r == IF llm.kind = "raise" THEN [ok |-> FALSE, data |-> <<>>]
             ELSE _parse_ai_response(llm)
    IN IF r.ok
       THEN ("confidence_score" :> _calculate_confidence_score(content, r.data))
            @@ ("processing_metadata" :>
                  [content_type |-> content_type, content_length |-> len(content)])
            @@ r.data
       ELSE _fallback_parsing(content, content_type)

----------------------------------------------------------------------------
(* HTTP answers *)

Resp(op, status, detail) == [op |-> op, status |-> status, detail |-> detail]

----------------------------------------------------------------------------
(* Persistence helpers (database.py).  find_one answers the first match in *)
(* insertion order; 0 stands for "no document".                            *)

First(hit) == IF hit = {} THEN 0 ELSE CHOOSE i \in hit : \A j \in hit : i <= j

\* mutant: the filter ignores the id
get_suggestion_by_id_any(suggestion_id) ==
    IF transaction_suggestions = <<>> THEN 0 ELSE 1

\* database.get_suggestion_by_id: index of the suggestion, 0 for None
get_suggestion_by_id(suggestion_id) ==
    First({i \in 1..Len(transaction_suggestions) :
             transaction_suggestions[i].id = suggestion_id})

\* mutant: the filter matches no document
update_suggestion_status_nomatch(suggestion_id, status) == transaction_suggestions

\* database.update_suggestion_status: $set status on the document with that id
update_suggestion_status(suggestion_id, status) ==
    LET i == get_suggestion_by_id(suggestion_id)
    IN IF i = 0 THEN transaction_suggestions
       ELSE [transaction_suggestions EXCEPT ![i].status = status]

\* db.budgets.find_one({user_id, category, month}): index of the budget, 0 for None
find_budget(user_id, category, month) ==
    First({i \in 1..Len(budgets) : /\ budgets[i].user_id = user_id
                                   /\ budgets[i].category = category
                                   /\ budgets[i].month = month})

\* mutant: the spent amount is not subtracted
remaining_budget_allocated(b) == budgets[b].allocated_amount

\* budget["allocated_amount"] - budget["spent_amount"]
remaining_budget(b) == budgets[b].allocated_amount - budgets[b].spent_amount

\* mutant: the name is bound to the lookup its callers expect
get_user_budget_by_category_bound(user_id, category) ==
    [raised |-> FALSE, idx |-> find_budget(user_id, category, CurrentMonth)]

\* server.py calls get_user_budget_by_category(user_id, category), a name
\* that no module binds (server.py imports * from models, security and
\* database, and none of them defines it): evaluating the call raises
\* NameError.  The answer is [raised, idx]: raised = TRUE is that NameError.
get_user_budget_by_category(user_id, category) ==
    [raised |-> TRUE, idx |-> 0]

\* server.py calls update_user_budget(budget_id, {"spent_amount": v}), which
\* is unbound in the same way: [raised, budgets], the collection afterwards.
update_user_budget(idx, new_spent) ==
    [raised |-> TRUE, budgets |-> budgets]

\* the insert is lost
create_transaction_lost(transaction_data) == transactions

\* database.create_transaction: stamps the document and inserts it
create_transaction(transaction_data) ==
    Append(transactions, Update(transaction_data, [date |-> now]))

Abs(x) == IF x < 0 THEN -x ELSE x

\* mutant: the filter does not name the user
check_duplicate_transaction_any_user(user_id, amount, date_range_hours) ==
    LET start_time == now - date_range_hours * 60
        Hit(tx) == /\ tx.amount = amount
                   /\ tx.date >= start_time
        found == SelectSeq(transactions, Hit)
    IN SubSeq(found, 1, Min(Len(found), DuplicateLimit))

\* mutant: the filter has no time window
check_duplicate_transaction_no_window(user_id, amount, date_range_hours) ==
    LET Hit(tx) == /\ tx.user_id = user_id
                   /\ tx.amount = amount
        found == SelectSeq(transactions, Hit)
    IN SubSeq(found, 1, Min(Len(found), DuplicateLimit))

\* database.check_duplicate_transaction: find({user_id, amount, date >=
\* start_time}).to_list(10)
check_duplicate_transaction(user_id, amount, date_range_hours) ==
    LET start_time == now - date_range_hours * 60
        Hit(tx) == /\ tx.user_id = user_id
                   /\ tx.amount = amount
                   /\ tx.date >= start_time
        found == SelectSeq(transactions, Hit)
    IN SubSeq(found, 1, Min(Len(found), DuplicateLimit))

\* {**tx, "duplicate_reason": reason, "similarity_score": score}, in tenths
Tagged(txs, reason, score) ==
    [i \in 1..Len(txs) |->
        Update(txs[i], [duplicate_reason |-> reason, similarity_score |-> score])]

\* the week matches leave out what the 24-hour lookup returned
detect_duplicates_deduped(user_id, parsed_data) ==
    LET amount == Get(parsed_data, "amount", 0)
        recent_transactions == check_duplicate_transaction(user_id, amount, DayHours)
        week_transactions == check_duplicate_transaction(user_id, amount, WeekHours)
        InRange(tx) == /\ 10 * Abs(tx.amount - amount) <= amount
                       /\ \A i \in 1..Len(recent_transactions) :
                             recent_transactions[i].id # tx.id
    IN IF amount <= 0 THEN <<>>
       ELSE Tagged(recent_transactions, "Same amount within 24 hours", 9)
            \o Tagged(SelectSeq(week_transactions, InRange),
                      "Similar amount within 1 week", 7)

\* AutoImportService.detect_duplicates.  abs(tx - amount) <= amount * 0.1 is
\* compared in tenths of a rupee.
detect_duplicates(user_id, parsed_data) ==
    LET amount == Get(parsed_data, "amount", 0)
        recent_transactions == check_duplicate_transaction(user_id, amount, DayHours)
        week_transactions == check_duplicate_transaction(user_id, amount, WeekHours)
        InRange(tx) == 10 * Abs(tx.amount - amount) <= amount
    IN IF amount <= 0 THEN <<>>
       ELSE Tagged(recent_transactions, "Same amount within 24 hours", 9)
            \o Tagged(SelectSeq(week_transactions, InRange),
                      "Similar amount within 1 week", 7)

----------------------------------------------------------------------------
(* Request models (models.py): TRUE when pydantic accepts the field *)

\* TransactionCreate.validate_type
validate_type(v) == v \in {"income", "expense"}

\* a whole number of rupees as a float
Rupees(n) == [rupees |-> n, mills |-> 0]

\* round(v, 2) of a float: less than half a paisa is dropped
round(v) == v.rupees

\* TransactionCreate.validate_amount, on the float of the body
TransactionCreate_validate_amount(v) ==
    /\ ~(v.rupees < 0 \/ (v.rupees = 0 /\ v.mills = 0))
    /\ ~(v.rupees > MaxAmount \/ (v.rupees = MaxAmount /\ v.mills > 0))

\* Transaction.validate_amount, on an amount already rounded
validate_amount(v) == ~(v <= 0) /\ ~(v > MaxAmount)

\* Budget.validate_allocated_amount
validate_allocated_amount(v) == ~(v <= 0) /\ ~(v > MaxAmount)

\* mutant: the minimum is checked on the untrimmed text
validate_content_untrimmed(v) ==
    /\ ~(len(v) = 0 \/ len(v) < MinContentLen)
    /\ ~(len(v) > MaxContentLen)

\* ContentParseRequest.validate_content
validate_content(v) ==
    /\ ~(len(v) = 0 \/ len(strip(v)) < MinContentLen)
    /\ ~(len(v) > MaxContentLen)

\* ContentParseRequest.validate_content_type
validate_content_type(v) == v \in {"sms", "email"}

----------------------------------------------------------------------------
(* POST /budgets: create_budget_endpoint.  BudgetCreate carries no amount  *)
(* check; constructing the Budget raises on a bad allocation and the global *)
(* exception handler answers 500.                                          *)

create_budget_endpoint(user_id, category, allocated_amount, month) ==
    IF ~validate_allocated_amount(allocated_amount)
    THEN /\ response' = Resp("create_budget", 500, "Internal server error")
         /\ UNCHANGED data
    ELSE /\ Len(budgets) < MaxBudgets
         /\ budgets' = Append(budgets,
              [id |-> Len(budgets) + 1,
               user_id |-> user_id,
               category |-> sanitize_input(category),
               allocated_amount |-> allocated_amount,
               spent_amount |-> 0,
               month |-> month])
         /\ response' = Resp("create_budget", 200, "ok")
         /\ UNCHANGED <<transactions, parsed_transactions, transaction_suggestions,
                        learning_feedback, total_earnings, llm_calls>>

----------------------------------------------------------------------------
(* POST /transactions: create_transaction_endpoint.  The stored document   *)
(* keeps the fields the workflow reads: id, user_id, type, amount,         *)
(* category, source, and the date database.create_transaction sets.        *)
(* The handler works on the amount TransactionCreate rounded; constructing  *)
(* the Transaction validates that amount again and a failure there is       *)
(* caught by except Exception.                                             *)

create_transaction_endpoint(user_id, type, body_amount, category, source) ==
    /\ LET amount == round(body_amount)
           cat == sanitize_input(category)
           b == find_budget(user_id, cat, CurrentMonth)
           transaction == [id |-> Len(transactions) + 1,
                           user_id |-> user_id,
                           type |-> type,
                           amount |-> amount,
                           category |-> cat,
                           source |-> source]
       IN IF ~(validate_type(type) /\ TransactionCreate_validate_amount(body_amount))
          THEN \* TransactionCreate is refused by pydantic
               /\ response' = Resp("create_transaction", 422, "validation error")
               /\ UNCHANGED data
          ELSE IF type = "expense"
          THEN IF b = 0
               THEN /\ response' = Resp("create_transaction", 400, "No budget allocated")
                    /\ UNCHANGED data
               ELSE IF amount > remaining_budget(b)
               THEN /\ response' = Resp("create_transaction", 400,
                                        "No money, you reached the limit!")
                    /\ UNCHANGED data
               ELSE IF ~validate_amount(amount)
               THEN /\ response' = Resp("create_transaction", 500,
                                        "Transaction creation failed")
                    /\ UNCHANGED data
               ELSE /\ Len(transactions) < MaxTransactions
                    /\ transactions' = create_transaction(transaction)
                    \* $inc on the budget document
                    /\ budgets' = [budgets EXCEPT ![b].spent_amount = @ + amount]
                    /\ response' = Resp("create_transaction", 200, "ok")
                    /\ UNCHANGED <<parsed_transactions, transaction_suggestions,
                                   learning_feedback, total_earnings, llm_calls>>
          ELSE IF ~validate_amount(amount)
          THEN /\ response' = Resp("create_transaction", 500,
                                   "Transaction creation failed")
               /\ UNCHANGED data
          ELSE /\ Len(transactions) < MaxTransactions
               /\ transactions' = create_transaction(transaction)
               /\ total_earnings' = [total_earnings EXCEPT ![user_id] = @ + amount]
               /\ response' = Resp("create_transaction", 200, "ok")
               /\ UNCHANGED <<budgets, parsed_transactions, transaction_suggestions,
                              learning_feedback, llm_calls>>

----------------------------------------------------------------------------
(* POST /auto-import/parse-content: parse_content_endpoint *)

\* database.create_parsed_transaction
create_parsed_transaction(parsed_data) == Append(parsed_transactions, parsed_data)

\* mutant: every suggestion refers to the first parsed transaction
create_transaction_suggestion_first(suggestion_data) ==
    Append(transaction_suggestions, [suggestion_data EXCEPT !.parsed_transaction_id = 1])

\* database.create_transaction_suggestion
create_transaction_suggestion(suggestion_data) ==
    Append(transaction_suggestions, suggestion_data)

\* a request that passes validation stores a suggestion: the model stops
\* accepting such requests once `limit` suggestions exist
ParseRoom(content, content_type, limit) ==
    (validate_content(content) /\ validate_content_type(content_type))
        => Len(transaction_suggestions) < limit

parse_content_endpoint(user_id, content, content_type, llm) ==
    IF ~(validate_content(content) /\ validate_content_type(content_type))
    THEN \* ContentParseRequest is refused by pydantic, the handler never runs
         /\ response' = Resp("parse_content", 422, "validation error")
         /\ UNCHANGED data
         /\ UNCHANGED potential_duplicates
    ELSE /\ LET text == strip(content)
                parsed_data == parse_content(text, content_type, llm)
                parsed_id == Len(parsed_transactions) + 1
                ttype == Get(parsed_data, "transaction_type", "unknown")
            IN /\ llm_calls' = llm_calls + 1
               /\ parsed_transactions' = create_parsed_transaction(
                    [id |-> parsed_id,
                     user_id |-> user_id,
                     original_content |-> text,
                     parsed_data |-> parsed_data,
                     confidence_score |-> Get(parsed_data, "confidence_score", 0)])
               /\ transaction_suggestions' = create_transaction_suggestion(
                    [id |-> Len(transaction_suggestions) + 1,
                     user_id |-> user_id,
                     parsed_transaction_id |-> parsed_id,
                     suggested_type |-> ttype,
                     suggested_amount |-> Get(parsed_data, "amount", 0),
                     suggested_category |-> Get(parsed_data, "category", "Other"),
                     suggested_source |-> IF ttype = "income"
                                          THEN Get(parsed_data, "income_source", None)
                                          ELSE None,
                     confidence_score |-> Get(parsed_data, "confidence_score", 0),
                     status |-> "pending"])
               /\ potential_duplicates' = detect_duplicates(user_id, parsed_data)
               /\ response' = Update(Resp("parse_content", 200, "Content parsed successfully"),
                    [categorization_suggestions |->
                         get_categorization_suggestions(parsed_data)])
               /\ UNCHANGED <<transactions, budgets, learning_feedback, total_earnings>>

----------------------------------------------------------------------------
(* POST /auto-import/approve-suggestion: approve_suggestion_endpoint.      *)
(* corrections is the request's dict (None and {} behave alike: both are   *)
(* falsy and both are stored as {}), here a function over some of the      *)
(* transaction's keys.                                                     *)

NoCorrections == [k \in {} |-> 0]

\* the stored suggestion carries the corrected fields
Feedback_corrected(user_id, suggestion, user_correction, feedback_type) ==
    [id |-> Len(learning_feedback) + 1,
     user_id |-> user_id,
     suggestion_id |-> suggestion.id,
     original_suggestion |->
         Update([type |-> suggestion.suggested_type,
                 amount |-> suggestion.suggested_amount,
                 category |-> suggestion.suggested_category,
                 source |-> suggestion.suggested_source],
                user_correction),
     user_correction |-> user_correction,
     feedback_type |-> feedback_type]

Feedback(user_id, suggestion, user_correction, feedback_type) ==
    [id |-> Len(learning_feedback) + 1,
     user_id |-> user_id,
     suggestion_id |-> suggestion.id,
     original_suggestion |-> [type |-> suggestion.suggested_type,
                              amount |-> suggestion.suggested_amount,
                              category |-> suggestion.suggested_category,
                              source |-> suggestion.suggested_source],
     user_correction |-> user_correction,
     feedback_type |-> feedback_type]

\* the transaction built from the suggestion, with the corrections applied
TransactionData(user_id, suggestion, corrections) ==
    Update([id |-> Len(transactions) + 1,
            user_id |-> user_id,
            type |-> suggestion.suggested_type,
            amount |-> suggestion.suggested_amount,
            category |-> suggestion.suggested_category,
            source |-> suggestion.suggested_source],
           corrections)

approve_suggestion_endpoint(user_id, suggestion_id, approved, corrections) ==
    /\ LET i == get_suggestion_by_id(suggestion_id)
           suggestion == transaction_suggestions[i]
           transaction_data == TransactionData(user_id, suggestion, corrections)
           is_expense == transaction_data.type = "expense"
           \* the budget lookup of the validation (line 2991)
           b1 == get_user_budget_by_category(user_id, transaction_data.category)
           remaining == remaining_budget(b1.idx)
           \* the budget lookup of the update (line 3005), on the same collection
           b2 == get_user_budget_by_category(user_id, transaction_data.category)
           upd == update_user_budget(b2.idx,
                      budgets[b2.idx].spent_amount + transaction_data.amount)
           failed == Resp("approve_suggestion", 500, "Failed to process suggestion")
       IN IF i = 0
          THEN /\ response' = Resp("approve_suggestion", 404, "Suggestion not found")
               /\ UNCHANGED data
          ELSE IF suggestion.user_id # user_id
          THEN /\ response' = Resp("approve_suggestion", 403, "Access denied")
               /\ UNCHANGED data
          ELSE IF ~approved
          THEN /\ Len(learning_feedback) < MaxFeedback
               /\ transaction_suggestions' = update_suggestion_status(suggestion_id, "rejected")
               /\ learning_feedback' = Append(learning_feedback,
                      Feedback(user_id, suggestion, NoCorrections, "rejection"))
               /\ response' = Resp("approve_suggestion", 200, "Suggestion rejected successfully")
               /\ UNCHANGED <<transactions, budgets, parsed_transactions,
                              total_earnings, llm_calls>>
          ELSE IF is_expense /\ b1.raised
          THEN \* the exception reaches `except Exception` before any write
               /\ response' = failed
               /\ UNCHANGED data
          ELSE IF is_expense /\ b1.idx # 0 /\ transaction_data.amount > remaining
          THEN /\ response' = Resp("approve_suggestion", 400,
                                   "No money, you reached the limit!")
               /\ UNCHANGED data
          ELSE IF is_expense /\ (b2.raised \/ (b2.idx # 0 /\ upd.raised))
          THEN \* raised after create_transaction: the transaction stays
               /\ Len(transactions) < MaxTransactions
               /\ transactions' = create_transaction(transaction_data)
               /\ response' = failed
               /\ UNCHANGED <<budgets, parsed_transactions, transaction_suggestions,
                              learning_feedback, total_earnings, llm_calls>>
          ELSE /\ Len(transactions) < MaxTransactions
               /\ Len(learning_feedback) < MaxFeedback
               /\ transactions' = create_transaction(transaction_data)
               /\ budgets' = IF is_expense /\ b2.idx # 0 THEN upd.budgets ELSE budgets
               /\ transaction_suggestions' = update_suggestion_status(suggestion_id, "approved")
               /\ learning_feedback' = Append(learning_feedback,
                      Feedback(user_id, suggestion, corrections,
                               IF DOMAIN corrections # {} THEN "correction" ELSE "approval"))
               /\ response' = Resp("approve_suggestion", 200,
                                   "Transaction approved and created successfully")
               /\ UNCHANGED <<parsed_transactions, total_earnings, llm_calls>>

----------------------------------------------------------------------------
(* EarnCoins, referrals, achievements and streaks (database.py).  These      *)
(* functions call one another, so each takes the collections as a record st  *)
(* [users, txs, refs, streaks, ach] and answers the collections afterwards.  *)

RewardState ==
    [users |-> coin_users, txs |-> earncoins_transactions, refs |-> referrals,
     streaks |-> user_streaks, ach |-> user_achievements]

\* the collections are left as st
Stored(st) ==
    /\ coin_users' = st.users
    /\ earncoins_transactions' = st.txs
    /\ referrals' = st.refs
    /\ user_streaks' = st.streaks
    /\ user_achievements' = st.ach

\* database.award_earn_coins: the transaction is inserted, then update_one
\* {"id": user_id} $inc, which changes nothing when no user has that id
award_earn_coins(st, user_id, amount, source, reference_id) ==
    [st EXCEPT
       !.txs = Append(@, [id |-> Len(@) + 1, user_id |-> user_id, type |-> "earned",
                          amount |-> amount, source |-> source,
                          reference_id |-> reference_id]),
       !.users = IF user_id \in DOMAIN @
                 THEN [@ EXCEPT ![user_id].earn_coins_balance = @ + amount,
                                ![user_id].total_earn_coins_earned = @ + amount]
                 ELSE @]

\* db.achievements as the two seeders fill it: the ids the handlers name,
\* both of difficulty "easy"
AchievementCatalogue == {"first_transaction", "first_referral_achievement"}

\* database.award_achievement
award_achievement(st, user_id, achievement_id) ==
    IF <<user_id, achievement_id>> \in st.ach
    THEN st
    ELSE LET inserted == [st EXCEPT !.ach = @ \cup {<<user_id, achievement_id>>}]
         IN IF achievement_id \in AchievementCatalogue
            THEN award_earn_coins(inserted, user_id, EasyCoins, "achievement",
                                  achievement_id)
            ELSE inserted

\* datetime.date() of an instant
Date(t) == t \div MinutesPerDay

StreakMilestones == {7, 30, 100, 365}

milestone_coins(current_streak) ==
    CASE current_streak = 7 -> 25
      [] current_streak = 30 -> 100
      [] current_streak = 100 -> 500
      [] current_streak = 365 -> 2000

\* f"streak_{current_streak}"
StreakReference(current_streak) ==
    CASE current_streak = 7 -> "streak_7"
      [] current_streak = 30 -> "streak_30"
      [] current_streak = 100 -> "streak_100"
      [] current_streak = 365 -> "streak_365"

\* database.update_user_streak: [current_streak, st]
update_user_streak(st, user_id, streak_type) ==
    LET today == Date(now)
        yesterday == today - 1
        known == user_id \in DOMAIN st.streaks
        streak == st.streaks[user_id]
        last_activity == Date(streak.last_activity_date)
        current_streak ==
            IF ~known THEN 1
            ELSE IF last_activity = today THEN streak.current_streak
            ELSE IF last_activity = yesterday THEN streak.current_streak + 1
            ELSE 1
        streaks ==
            IF ~known
            THEN st.streaks @@ (user_id :> [streak_type |-> streak_type,
                                           current_streak |-> 1,
                                           longest_streak |-> 1,
                                           last_activity_date |-> now,
                                           total_activities |-> 1])
            ELSE IF last_activity = today THEN st.streaks
            ELSE IF last_activity = yesterday
            THEN [st.streaks EXCEPT
                    ![user_id].current_streak = current_streak,
                    ![user_id].longest_streak =
                        IF current_streak > @ THEN current_streak ELSE @,
                    ![user_id].last_activity_date = now,
                    ![user_id].total_activities = @ + 1]
            ELSE [st.streaks EXCEPT
                    ![user_id].current_streak = 1,
                    ![user_id].last_activity_date = now,
                    ![user_id].total_activities = @ + 1]
        updated == [st EXCEPT !.streaks = streaks]
    IN [current_streak |-> current_streak,
        st |-> IF current_streak \in StreakMilestones
               THEN award_earn_coins(updated, user_id, milestone_coins(current_streak),
                                     "streak", StreakReference(current_streak))
               ELSE updated]

\* str(uuid.uuid4())[:8].upper() of the k-th referral
ReferralCode(k) ==
    CASE k = 1 -> "R1"
      [] k = 2 -> "R2"
      [] k = 3 -> "R3"
      [] OTHER -> "R4"

\* database.create_referral; the code is a fresh one
create_referral(st, referrer_id) ==
    [st EXCEPT !.refs = Append(@, [referrer_id |-> referrer_id,
                                   referral_code |-> ReferralCode(Len(@) + 1),
                                   status |-> "pending",
                                   referee_id |-> None,
                                   coins_earned |-> 0])]

\* find_one({"referral_code": referral_code, "status": "pending"}): index, 0 for None
PendingReferral(st, referral_code) ==
    First({i \in 1..Len(st.refs) : /\ st.refs[i].referral_code = referral_code
                                   /\ st.refs[i].status = "pending"})

\* database.complete_referral: [referral, st], referral = 0 for None
complete_referral(st, referral_code, new_user_id) ==
    LET i == PendingReferral(st, referral_code)
        completed == [st EXCEPT !.refs[i].referee_id = new_user_id,
                                !.refs[i].status = "completed",
                                !.refs[i].coins_earned = ReferrerCoins]
        referrer == award_earn_coins(completed, st.refs[i].referrer_id, ReferrerCoins,
                                     "referral", referral_code)
        referee == award_earn_coins(referrer, new_user_id, RefereeCoins,
                                    "bonus", referral_code)
    IN IF i = 0 THEN [referral |-> 0, st |-> st]
       ELSE [referral |-> i, st |-> referee]

\* database.trigger_referral_milestone, as far as it touches these collections
trigger_referral_milestone(st, user_id, milestone_count) ==
    IF milestone_count = 1
    THEN award_achievement(st, user_id, "first_referral_achievement")
    ELSE st

\* server.enhanced_complete_referral
enhanced_complete_referral(st, referral_code, new_user_id) ==
    LET r == complete_referral(st, referral_code, new_user_id)
        referrer_id == st.refs[r.referral].referrer_id
        completed_count ==
            Cardinality({i \in 1..Len(r.st.refs) :
                            /\ r.st.refs[i].referrer_id = referrer_id
                            /\ r.st.refs[i].status = "completed"})
    IN IF r.referral = 0 THEN r
       ELSE IF completed_count \in {1, 5, 10, 25, 50}
       THEN [r EXCEPT !.st = trigger_referral_milestone(r.st, referrer_id,
                                                        completed_count)]
       ELSE r

\* the id uuid4 gives the k-th account created
NewUserId(k) ==
    CASE k = 1 -> "u3"
      [] k = 2 -> "u4"
      [] k = 3 -> "u5"
      [] OTHER -> "u6"

\* get_user_by_email
EmailRegistered(email) ==
    \E id \in DOMAIN coin_users : coin_users[id].email = email

\* POST /auth/register: register_user.  referred_by is None or the referral
\* code of the request.
register_user(email, referred_by) ==
    IF EmailRegistered(email)
    THEN /\ response' = Resp("register", 400, "Email already registered")
         /\ UNCHANGED rewards
    ELSE LET user_id == NewUserId(Cardinality(DOMAIN coin_users \ Users) + 1)
             referred ==
                 IF referred_by # None
                 THEN enhanced_complete_referral(RewardState, referred_by, user_id).st
                 ELSE RewardState
             \* create_user(user_doc): the document carries the model's defaults
             created == [referred EXCEPT !.users =
                            @ @@ (user_id :> [email |-> email,
                                              earn_coins_balance |-> 0,
                                              total_earn_coins_earned |-> 0])]
             welcomed == award_earn_coins(created, user_id, WelcomeCoins, "bonus",
                                          "welcome_bonus")
             streaked == update_user_streak(welcomed, user_id, "daily_login").st
             started == award_achievement(streaked, user_id, "first_transaction")
         IN /\ Len(started.txs) <= MaxCoinTransactions
            /\ Stored(started)
            /\ response' = Resp("register", 200, "Registration successful")

\* POST /viral/send-referral: send_referral_endpoint
send_referral_endpoint(user_id) ==
    /\ Len(referrals) < MaxReferrals
    /\ Stored(create_referral(RewardState, user_id))
    /\ response' = Resp("send_referral", 200, "Referral invitation sent successfully!")

\* GET /viral/streaks: get_user_streaks_endpoint
get_user_streaks_endpoint(user_id) ==
    LET r == update_user_streak(RewardState, user_id, "daily_login")
    IN /\ Len(r.st.txs) <= MaxCoinTransactions
       /\ Stored(r.st)
       /\ response' = Resp("get_streaks", 200, "ok")

----------------------------------------------------------------------------
(* POST /auth/login: login_user.  password_ok is verify_password's answer.  *)
(* The handler is reached once the request passed the route's rate limit.   *)
(* An optional datetime field is a sequence of at most one instant: <<>> is *)
(* None, <<t>> the datetime t.                                              *)

Emails == {"asha@earnnest.in", "off@earnnest.in"}

(* tz_aware is the option of that name of the store's client: with it the   *)
(* datetimes of a document read back carry the UTC zone, without it (the    *)
(* driver's default, and database.py passes no option beside the URL) they  *)
(* are naive, and subtracting a naive datetime from                         *)
(* datetime.now(timezone.utc) raises TypeError.                             *)

\* the subtraction of is_account_locked raises
is_account_locked_raises(failed_attempts, last_failed_login, tz_aware) ==
    /\ failed_attempts >= MAX_LOGIN_ATTEMPTS
    /\ last_failed_login # <<>>
    /\ ~tz_aware

is_account_locked(failed_attempts, last_failed_login) ==
    IF failed_attempts < MAX_LOGIN_ATTEMPTS THEN FALSE
    ELSE IF last_failed_login = <<>> THEN FALSE
    ELSE now - last_failed_login[1] < LOCKOUT_DURATION

\* user_doc["id"]
IdOf(email) == CHOOSE id \in DOMAIN coin_users : coin_users[id].email = email

login_user(email, password_ok, tz_aware) ==
    IF email \notin DOMAIN user_docs
    THEN /\ response' = Resp("login", 401, "Invalid credentials")
         /\ UNCHANGED <<user_docs, rewards>>
    ELSE LET user_doc == user_docs[email]
         IN IF is_account_locked_raises(user_doc.failed_login_attempts,
                                        user_doc.last_failed_login, tz_aware)
            THEN \* except Exception
                 /\ response' = Resp("login", 500, "Login failed")
                 /\ UNCHANGED <<user_docs, rewards>>
            ELSE IF is_account_locked(user_doc.failed_login_attempts,
                                 user_doc.last_failed_login)
            THEN /\ response' = Resp("login", 423, "Account locked")
                 /\ UNCHANGED <<user_docs, rewards>>
            ELSE IF ~password_ok
            THEN /\ user_doc.failed_login_attempts < MaxFailedLogins
                 /\ user_docs' = [user_docs EXCEPT
                       ![email].failed_login_attempts = @ + 1,
                       ![email].last_failed_login = <<now>>]
                 /\ response' = Resp("login", 401, "Invalid credentials")
                 /\ UNCHANGED rewards
            ELSE IF ~user_doc.is_active
            THEN /\ response' = Resp("login", 401, "Account deactivated")
                 /\ UNCHANGED <<user_docs, rewards>>
            ELSE /\ Len(update_user_streak(RewardState, IdOf(email),
                                           "daily_login").st.txs) <= MaxCoinTransactions
                 /\ Stored(update_user_streak(RewardState, IdOf(email),
                                              "daily_login").st)
                 /\ user_docs' = [user_docs EXCEPT
                       ![email].failed_login_attempts = 0,
                       ![email].last_failed_login = <<>>,
                       ![email].last_login = <<now>>]
                 /\ response' = Update(Resp("login", 200, "Login successful"),
                                       [token |-> email])

\* POST /auth/reset-password: reset_password.  email and new_password are
\* the body's fields, None when missing; score is check_password_strength's
\* score of the new password.
reset_password(email, new_password, score) ==
    IF email = None \/ new_password = None
    THEN /\ response' = Resp("reset_password", 400,
                             "Email and new password are required")
         /\ UNCHANGED user_docs
    ELSE IF email \notin DOMAIN user_docs
    THEN /\ response' = Resp("reset_password", 200,
                             "If the email exists, password has been reset successfully")
         /\ UNCHANGED user_docs
    ELSE IF score < MinPasswordScore
    THEN /\ response' = Resp("reset_password", 400, "Password too weak")
         /\ UNCHANGED user_docs
    ELSE /\ user_docs' = [user_docs EXCEPT
               ![email].failed_login_attempts = 0,
               ![email].last_failed_login = <<>>]
         /\ response' = Resp("reset_password", 200, "Password reset successfully!")

----------------------------------------------------------------------------
(* Concurrent requests.  A handler runs until it awaits the store; every    *)
(* store operation takes effect at one instant and is followed by the       *)
(* handler's code up to its next store operation.  calls[w] is the request  *)
(* worker w handles: pc names the store operation it is about to make, the  *)
(* other fields are the handler's local variables (budget and suggestion    *)
(* are the documents as they were read) and, once it has answered, status.  *)

Workers == {"w1", "w2"}

Idle == [pc |-> "idle"]

InFlight(w) == calls[w].pc \notin {"idle", "done", "crashed"}

Answer(call, status) == [call EXCEPT !.pc = "done", !.status = status]

Goto(call, pc) == [call EXCEPT !.pc = pc]

\* the budget document as find_one returns it, with its index for _id
BudgetDoc(b) == [idx |-> b,
                 allocated_amount |-> budgets[b].allocated_amount,
                 spent_amount |-> budgets[b].spent_amount]

\* the budget is written back from the document read earlier
inc_spent_amount_stale(w) ==
    [budgets EXCEPT ![calls[w].budget.idx].spent_amount =
        calls[w].budget.spent_amount + calls[w].transaction_data.amount]

\* update_one({"_id": budget["_id"]}, {"$inc": {"spent_amount": amount}})
inc_spent_amount(w) ==
    [budgets EXCEPT ![calls[w].budget.idx].spent_amount =
        @ + calls[w].transaction_data.amount]

\* create_transaction_endpoint up to its first insert: the body is checked,
\* the budget is read and compared, the Transaction is constructed
create_transaction_endpoint_begin(w, user_id, type, body_amount, category, source) ==
    LET amount == round(body_amount)
        cat == sanitize_input(category)
        b == find_budget(user_id, cat, CurrentMonth)
        call == [pc |-> "create_transaction",
                 op |-> "create_transaction",
                 user_id |-> user_id,
                 transaction_data |-> [user_id |-> user_id, type |-> type,
                                       amount |-> amount, category |-> cat,
                                       source |-> source],
                 budget |-> IF type = "expense" /\ b # 0 THEN BudgetDoc(b)
                            ELSE [idx |-> 0],
                 transaction_id |-> 0,
                 status |-> 0]
    IN /\ calls[w].pc = "idle"
       /\ calls' = [calls EXCEPT ![w] =
            IF ~(validate_type(type) /\ TransactionCreate_validate_amount(body_amount))
            THEN Answer(call, 422)
            ELSE IF type = "expense" /\ b = 0
            THEN Answer(call, 400)
            ELSE IF type = "expense" /\ amount > remaining_budget(b)
            THEN Answer(call, 400)
            ELSE IF ~validate_amount(amount)
            THEN Answer(call, 500)
            ELSE call]
       /\ UNCHANGED data

\* approve_suggestion_endpoint up to its second store operation: the
\* suggestion is read and checked, transaction_data is built and corrected
approve_suggestion_endpoint_begin(w, user_id, suggestion_id, approved, corrections) ==
    LET i == get_suggestion_by_id(suggestion_id)
        suggestion == transaction_suggestions[i]
        transaction_data == TransactionData(user_id, suggestion, corrections)
        call == [pc |-> "create_transaction",
                 op |-> "approve_suggestion",
                 user_id |-> user_id,
                 suggestion_id |-> suggestion_id,
                 approved |-> approved,
                 corrections |-> corrections,
                 suggestion |-> IF i = 0 THEN <<>> ELSE suggestion,
                 transaction_data |-> IF i = 0 THEN <<>> ELSE transaction_data,
                 budget |-> [idx |-> 0],
                 transaction_id |-> 0,
                 status |-> 0]
    IN /\ calls[w].pc = "idle"
       /\ calls' = [calls EXCEPT ![w] =
            IF i = 0 THEN Answer(call, 404)
            ELSE IF suggestion.user_id # user_id THEN Answer(call, 403)
            ELSE IF ~approved THEN Goto(call, "reject_suggestion")
            ELSE IF transaction_data.type # "expense" THEN call
            ELSE IF get_user_budget_by_category(user_id, transaction_data.category).raised
            THEN Answer(call, 500)
            ELSE Goto(call, "validate_budget")]
       /\ UNCHANGED data

\* the next store operation of the request worker w handles
endpoint_step(w) ==
    LET call == calls[w]
        td == call.transaction_data
        is_expense == td.type = "expense"
        b1 == get_user_budget_by_category(call.user_id, td.category)
        upd == update_user_budget(call.budget.idx, call.budget.spent_amount + td.amount)
    IN CASE call.pc = "validate_budget" ->
              /\ calls' = [calls EXCEPT ![w] =
                   IF b1.idx # 0 /\ td.amount > remaining_budget(b1.idx)
                   THEN Answer(call, 400)
                   ELSE Goto(call, "create_transaction")]
              /\ UNCHANGED data
         [] call.pc = "create_transaction" ->
              /\ Len(transactions) < MaxTransactions
              /\ transactions' = create_transaction(
                                     Update(td, [id |-> Len(transactions) + 1]))
              /\ calls' = [calls EXCEPT ![w] =
                   LET made == [call EXCEPT !.transaction_id = Len(transactions) + 1]
                   IN IF call.op = "create_transaction"
                      THEN Goto(made, IF is_expense THEN "inc_spent_amount"
                                      ELSE "inc_total_earnings")
                      ELSE IF ~is_expense
                      THEN Goto(made, "update_suggestion_status")
                      ELSE IF b1.raised
                      THEN Answer(made, 500)
                      ELSE Goto(made, "get_user_budget_by_category")]
              /\ UNCHANGED <<budgets, parsed_transactions, transaction_suggestions,
                             learning_feedback, total_earnings, llm_calls>>
         [] call.pc = "inc_spent_amount" ->
              /\ budgets' = inc_spent_amount(w)
              /\ calls' = [calls EXCEPT ![w] = Answer(call, 200)]
              /\ UNCHANGED <<transactions, parsed_transactions,
                             transaction_suggestions, learning_feedback,
                             total_earnings, llm_calls>>
         [] call.pc = "inc_total_earnings" ->
              /\ total_earnings' = [total_earnings EXCEPT ![call.user_id] = @ + td.amount]
              /\ calls' = [calls EXCEPT ![w] = Answer(call, 200)]
              /\ UNCHANGED <<transactions, budgets, parsed_transactions,
                             transaction_suggestions, learning_feedback, llm_calls>>
         [] call.pc = "get_user_budget_by_category" ->
              /\ calls' = [calls EXCEPT ![w] =
                   IF b1.idx = 0
                   THEN Goto(call, "update_suggestion_status")
                   ELSE IF upd.raised
                   THEN Answer(call, 500)
                   ELSE Goto([call EXCEPT !.budget = BudgetDoc(b1.idx)],
                             "update_user_budget")]
              /\ UNCHANGED data
         [] call.pc = "update_user_budget" ->
              /\ budgets' = upd.budgets
              /\ calls' = [calls EXCEPT ![w] = Goto(call, "update_suggestion_status")]
              /\ UNCHANGED <<transactions, parsed_transactions,
                             transaction_suggestions, learning_feedback,
                             total_earnings, llm_calls>>
         [] call.pc = "update_suggestion_status" ->
              /\ transaction_suggestions' =
                    update_suggestion_status(call.suggestion_id, "approved")
              /\ calls' = [calls EXCEPT ![w] = Goto(call, "create_learning_feedback")]
              /\ UNCHANGED <<transactions, budgets, parsed_transactions,
                             learning_feedback, total_earnings, llm_calls>>
         [] call.pc = "reject_suggestion" ->
              /\ transaction_suggestions' =
                    update_suggestion_status(call.suggestion_id, "rejected")
              /\ calls' = [calls EXCEPT ![w] = Goto(call, "create_learning_feedback")]
              /\ UNCHANGED <<transactions, budgets, parsed_transactions,
                             learning_feedback, total_earnings, llm_calls>>
         [] call.pc = "create_learning_feedback" ->
              /\ Len(learning_feedback) < MaxFeedback
              /\ learning_feedback' = Append(learning_feedback,
                    IF ~call.approved
                    THEN Feedback(call.user_id, call.suggestion, NoCorrections,
                                  "rejection")
                    ELSE Feedback(call.user_id, call.suggestion, call.corrections,
                                  IF DOMAIN call.corrections # {} THEN "correction"
                                  ELSE "approval"))
              /\ calls' = [calls EXCEPT ![w] = Answer(call, 200)]
              /\ UNCHANGED <<transactions, budgets, parsed_transactions,
                             transaction_suggestions, total_earnings, llm_calls>>
         [] OTHER -> FALSE

----------------------------------------------------------------------------
(* Inputs *)

ContentDebit ==
    Content(0, 52, 0, <<"Rs.", "500", "debited", "for", "purchase", "at", "Amazon",
                        "on", "12-05-2024">>, 9)
ContentSalary ==
    Content(0, 40, 0, <<"You", "received", "salary", "credit", "of", "Rs.", "45,000">>, 7)
ContentHello ==
    Content(0, 11, 0, <<"hello", "there">>, 2)
ContentPadded ==
    Content(2, 16, 1, <<"Amount:", "250", "sent">>, 3)
ContentShort ==
    Content(0, 9, 0, <<"Rs.", "500", "x">>, 3)
ContentPaddedShort ==
    Content(3, 9, 3, <<"Rs.", "500", "x">>, 3)
ContentBlank ==
    Content(12, 0, 0, <<>>, 0)
ContentLongest ==
    Content(0, MaxContentLen, 0, <<"0", "INR", "paid">>, 3)
ContentTooLong ==
    Content(0, MaxContentLen + 1, 0, <<"0", "INR", "paid">>, 3)
ContentPaddedTooLong ==
    Content(0, MaxContentLen - 5, 10, <<"0", "INR", "paid">>, 3)

Contents ==
    {ContentDebit, ContentSalary, ContentHello, ContentPadded, ContentShort,
     ContentPaddedShort, ContentBlank, ContentLongest, ContentTooLong,
     ContentPaddedTooLong}

Text(words) == [words |-> words, dots |-> FALSE]

LlmExpense ==
    [transaction_type |-> "expense", amount |-> 50, merchant_or_source |-> "Amazon",
     description |-> Text(<<"purchase", "at", "Amazon">>), category |-> "Food",
     income_source |-> None, date |-> "2026-11-04", is_duplicate_likely |-> FALSE,
     parsing_confidence |-> 9]

LlmIncome ==
    [transaction_type |-> "income", amount |-> 50, merchant_or_source |-> "Unknown",
     description |-> Text(<<"salary">>), category |-> "Salary",
     income_source |-> "salary", date |-> "2026-11-04", is_duplicate_likely |-> FALSE,
     parsing_confidence |-> 5]

LlmRaise == [kind |-> "raise", fence |-> "none", json |-> FALSE, obj |-> <<>>]

LlmText(fence, obj) == [kind |-> "text", fence |-> fence, json |-> TRUE, obj |-> obj]

LlmGarbage == [kind |-> "text", fence |-> "none", json |-> FALSE, obj |-> <<>>]

LlmAnswers ==
    {LlmRaise, LlmGarbage, LlmText("none", LlmIncome),
     LlmText("none", Without(LlmIncome, "parsing_confidence"))}
    \cup {LlmText(f, LlmExpense) : f \in {"none", "json", "plain"}}
    \cup {LlmText("json", Without(LlmExpense, f)) : f \in RequiredFields}

\* POST /budgets bodies, with the caller
BudgetRequests ==
    {[user_id |-> "u1", category |-> "<b>Food</b>", allocated_amount |-> 100,
      month |-> CurrentMonth],
     [user_id |-> "u1", category |-> "Food", allocated_amount |-> 0,
      month |-> CurrentMonth],
     [user_id |-> "u1", category |-> "Food", allocated_amount |-> MaxAmount + 1,
      month |-> CurrentMonth]}

\* POST /transactions bodies, with the caller
TransactionRequests ==
    {[user_id |-> "u1", type |-> "expense", amount |-> 40, category |-> "Food"],
     [user_id |-> "u1", type |-> "expense", amount |-> 60, category |-> "<b>Food</b>"],
     [user_id |-> "u1", type |-> "expense", amount |-> 0, category |-> "Food"],
     [user_id |-> "u1", type |-> "expense", amount |-> 150, category |-> "Food"],
     [user_id |-> "u1", type |-> "transfer", amount |-> 40, category |-> "Food"],
     [user_id |-> "u2", type |-> "expense", amount |-> 40, category |-> "Food"],
     [user_id |-> "u2", type |-> "income", amount |-> MaxAmount, category |-> "Salary"],
     [user_id |-> "u2", type |-> "income", amount |-> MaxAmount + 1, category |-> "Salary"]}

\* POST /auto-import/parse-content bodies, with the caller and the LLM's answer
ParseRequests ==
    {[user_id |-> "u1", content |-> ContentSalary, llm |-> LlmRaise],
     [user_id |-> "u1", content |-> ContentPadded, llm |-> LlmText("json", LlmExpense)],
     [user_id |-> "u2", content |-> ContentHello, llm |-> LlmRaise],
     [user_id |-> "u2", content |-> ContentShort, llm |-> LlmRaise]}

SuggestionIds == 1..(MaxSuggestions + 1)

CorrectionSet ==
    {NoCorrections,
     [amount |-> 0]}

----------------------------------------------------------------------------
(* Specifications *)

Init ==
    /\ transactions = <<>>
    /\ budgets = <<>>
    /\ parsed_transactions = <<>>
    /\ transaction_suggestions = <<>>
    /\ learning_feedback = <<>>
    /\ total_earnings = [u \in Users |-> 0]
    /\ llm_calls = 0
    /\ response = Resp("none", 0, "none")
    /\ now = 0
    /\ potential_duplicates = <<>>
    /\ user_docs = [e \in Emails |->
                      [failed_login_attempts |-> 0,
                       last_failed_login |-> <<>>,
                       last_login |-> <<>>,
                       is_active |-> e # "off@earnnest.in"]]
    /\ calls = [w \in Workers |-> Idle]
    /\ user_hustles = [h \in Hustles |-> [applicants |-> <<>>]]
    /\ hustle_applications = <<>>
    /\ applies = [w \in Workers |-> Idle]
    /\ coin_users = [u \in Users |->
                       [email |-> EmailOf(u), earn_coins_balance |-> 0,
                        total_earn_coins_earned |-> 0]]
    /\ earncoins_transactions = <<>>
    /\ referrals = <<>>
    /\ user_streaks = [u \in {} |-> 0]
    /\ user_achievements = {}

CreateBudget ==
    \E r \in BudgetRequests :
        /\ create_budget_endpoint(r.user_id, r.category, r.allocated_amount, r.month)
        /\ UNCHANGED <<now, potential_duplicates, user_docs, calls, engagement>>

CreateTransaction ==
    \E r \in TransactionRequests :
        /\ create_transaction_endpoint(r.user_id, r.type, Rupees(r.amount),
                                       r.category, None)
        /\ UNCHANGED <<now, potential_duplicates, user_docs, calls, engagement>>

ParseContent ==
    \E r \in ParseRequests :
        /\ ParseRoom(r.content, "sms", MaxSuggestions)
        /\ parse_content_endpoint(r.user_id, r.content, "sms", r.llm)
        /\ UNCHANGED <<now, user_docs, calls, engagement>>

ApproveSuggestion ==
    \E u \in Users, sid \in SuggestionIds, a \in BOOLEAN, c \in CorrectionSet :
        /\ approve_suggestion_endpoint(u, sid, a, c)
        /\ UNCHANGED <<now, potential_duplicates, user_docs, calls, engagement>>

Next ==
    \/ CreateBudget
    \/ CreateTransaction
    \/ ParseContent
    \/ ApproveSuggestion

Spec == Init /\ [][Next]_vars

\* the parser alone, over every content, content type and LLM answer (the
\* LLM is not called for a request that is refused, so one answer stands for
\* all there)
ParseAnyContent ==
    \E u \in Users, c \in Contents, t \in {"sms", "email", "push"} :
        \E l \in (IF validate_content(c) /\ validate_content_type(t)
                  THEN LlmAnswers ELSE {LlmRaise}) :
            /\ ParseRoom(c, t, MaxSuggestions)
            /\ parse_content_endpoint(u, c, t, l)
            /\ UNCHANGED <<now, user_docs, calls, engagement>>

NextParser == ParseAnyContent

SpecParser == Init /\ [][NextParser]_vars

\* the approval workflow without direct entry
SpecApproval == Init /\ [][CreateBudget \/ ParseContent \/ ApproveSuggestion]_vars

\* expenses: direct entry, and approvals of expense suggestions
ParseExpenseContent ==
    \E r \in {[content |-> ContentPadded, llm |-> LlmText("json", LlmExpense)],
              [content |-> ContentDebit, llm |-> LlmGarbage]} :
        /\ ParseRoom(r.content, "sms", MaxSuggestions)
        /\ parse_content_endpoint("u1", r.content, "sms", r.llm)
        /\ UNCHANGED <<now, user_docs, calls, engagement>>

ApproveExpense ==
    \E sid \in SuggestionIds, c \in CorrectionSet :
        /\ approve_suggestion_endpoint("u1", sid, TRUE, c)
        /\ UNCHANGED <<now, potential_duplicates, user_docs, calls, engagement>>

SpecExpenses ==
    Init /\ [][CreateBudget \/ CreateTransaction \/ ParseExpenseContent
                \/ ApproveExpense]_vars

\* duplicate detection: income entries at several instants, then a parse
\* whose LLM answer names an amount
Instants == {0, 1, DayHours * 60, DayHours * 60 + 1, WeekHours * 60, WeekHours * 60 + 1}

Tick ==
    /\ \E t \in Instants : t > now /\ now' = t
    /\ UNCHANGED <<data, response, potential_duplicates, user_docs, calls, engagement>>

CandidateAmounts == {1000, 1080, 1500}

CreateIncome ==
    \E u \in Users :
        /\ create_transaction_endpoint(u, "income", Rupees(1000), "Salary", None)
        /\ UNCHANGED <<now, potential_duplicates, user_docs, calls, engagement>>

ParseCandidate ==
    \E l \in {LlmText("none", [LlmIncome EXCEPT !.amount = a]) : a \in CandidateAmounts}
               \cup {LlmRaise} :
        /\ ParseRoom(ContentHello, "sms", MaxSuggestions)
        /\ parse_content_endpoint("u1", ContentHello, "sms", l)
        /\ UNCHANGED <<now, user_docs, calls, engagement>>

SpecDuplicates == Init /\ [][CreateIncome \/ ParseCandidate \/ Tick]_vars

\* duplicate detection on a ledger that already holds about as many
\* transactions of one amount as a lookup returns: all but the last created
\* at instant 0, the last one just now
InitLedger ==
    /\ \E n \in (DuplicateLimit - 1)..(DuplicateLimit + 1), t \in Instants :
          /\ now = t
          /\ transactions = [i \in 1..n |->
                                [id |-> i, user_id |-> "u1", type |-> "income",
                                 amount |-> 1000, category |-> "Salary",
                                 source |-> None,
                                 date |-> IF i < n THEN 0 ELSE t]]
    /\ budgets = <<>>
    /\ parsed_transactions = <<>>
    /\ transaction_suggestions = <<>>
    /\ learning_feedback = <<>>
    /\ total_earnings = [u \in Users |-> 0]
    /\ llm_calls = 0
    /\ response = Resp("none", 0, "none")
    /\ potential_duplicates = <<>>
    /\ user_docs = [e \in Emails |->
                      [failed_login_attempts |-> 0,
                       last_failed_login |-> <<>>,
                       last_login |-> <<>>,
                       is_active |-> e # "off@earnnest.in"]]
    /\ calls = [w \in Workers |-> Idle]
    /\ user_hustles = [h \in Hustles |-> [applicants |-> <<>>]]
    /\ hustle_applications = <<>>
    /\ applies = [w \in Workers |-> Idle]
    /\ coin_users = [u \in Users |->
                       [email |-> EmailOf(u), earn_coins_balance |-> 0,
                        total_earn_coins_earned |-> 0]]
    /\ earncoins_transactions = <<>>
    /\ referrals = <<>>
    /\ user_streaks = [u \in {} |-> 0]
    /\ user_achievements = {}

SpecLedger == InitLedger /\ [][ParseCandidate \/ Tick]_vars

\* parses whose LLM answer is the JSON object asked for, over the fields the
\* confidence score reads; parsing_confidence is whatever number the LLM wrote
LlmConfidences == {0 - 10, 0, 5, 9, 20}

LlmScored ==
    {[LlmExpense EXCEPT !.parsing_confidence = c, !.amount = a,
                        !.merchant_or_source = m, !.transaction_type = t] :
        c \in LlmConfidences, a \in {0, 50}, m \in {"", "Unknown", "Amazon"},
        t \in {"income", "expense", "transfer"}}
    \cup {Without(LlmExpense, "parsing_confidence")}

ParseScored ==
    \E u \in Users, obj \in LlmScored :
        /\ ParseRoom(ContentDebit, "sms", MaxSuggestions)
        /\ parse_content_endpoint(u, ContentDebit, "sms", LlmText("json", obj))
        /\ UNCHANGED <<now, user_docs, calls, engagement>>

SpecConfidence == Init /\ [][ParseScored]_vars

\* parses that end in the rule-based fallback (the LLM call raises), over
\* every three-word content of a small vocabulary
FallbackWords == {"Rs.", "500", "salary", "paid", "project"}

FallbackContents ==
    {Content(0, 2 * MinContentLen, 0, <<a, b, c>>, 3) :
        a \in FallbackWords, b \in FallbackWords, c \in FallbackWords}

ParseFallback ==
    \E c \in FallbackContents :
        /\ ParseRoom(c, "sms", MaxSuggestions)
        /\ parse_content_endpoint("u1", c, "sms", LlmRaise)
        /\ UNCHANGED <<now, user_docs, calls, engagement>>

SpecFallback == Init /\ [][ParseFallback]_vars

\* parses whose LLM answer varies in the fields the categorization reads
LlmDescribed ==
    {[LlmIncome EXCEPT !.transaction_type = t, !.merchant_or_source = m,
                       !.description = Text(d)] :
        t \in {"income", "expense", "transfer"}, m \in {"Unknown", "Upwork"},
        d \in {<<"purchase", "at", "Amazon">>, <<"salary">>, <<"interest", "paid">>}}

ParseDescribed ==
    \E obj \in LlmDescribed :
        /\ ParseRoom(ContentDebit, "sms", MaxSuggestions)
        /\ parse_content_endpoint("u1", ContentDebit, "sms", LlmText("json", obj))
        /\ UNCHANGED <<now, user_docs, calls, engagement>>

\* parses on either path
SpecCategorize == Init /\ [][ParseFallback \/ ParseDescribed]_vars

\* several imports, each approved or rejected at some point
ParseImport ==
    \E r \in ParseRequests :
        /\ ParseRoom(r.content, "sms", MaxImports)
        /\ parse_content_endpoint(r.user_id, r.content, "sms", r.llm)
        /\ UNCHANGED <<now, user_docs, calls, engagement>>

SpecImport == Init /\ [][ParseImport \/ ApproveSuggestion]_vars

\* approvals whose corrections name any key of the transaction document
CorrectionsAnyKey ==
    {NoCorrections,
     [category |-> "Salary"],
     [user_id |-> "u2"],
     [id |-> 1]}

ApproveCorrected ==
    \E u \in Users, sid \in SuggestionIds, c \in CorrectionsAnyKey :
        /\ approve_suggestion_endpoint(u, sid, TRUE, c)
        /\ UNCHANGED <<now, potential_duplicates, user_docs, calls, engagement>>

SpecCorrections == Init /\ [][ParseContent \/ ApproveCorrected]_vars

\* direct entry over the whole range of amounts
BodyAmounts ==
    {Rupees(0 - 5), Rupees(0), [rupees |-> 0, mills |-> 4], Rupees(40),
     [rupees |-> 60, mills |-> 4], Rupees(MaxAmount),
     [rupees |-> MaxAmount, mills |-> 1], Rupees(MaxAmount + 1)}

CreateAnyAmount ==
    \E type \in {"income", "expense"}, a \in BodyAmounts :
        /\ create_transaction_endpoint("u1", type, a, "Food", None)
        /\ UNCHANGED <<now, potential_duplicates, user_docs, calls, engagement>>

SpecAmounts == Init /\ [][CreateBudget \/ CreateAnyAmount]_vars

\* requests handled concurrently, and a server that may stop between two
\* store operations of a request; the budget and the suggestions they work
\* on are there before the first of them arrives
AllocateBudget ==
    /\ \A w \in Workers : calls[w] = Idle
    /\ create_budget_endpoint("u1", "Food", 100, CurrentMonth)
    /\ UNCHANGED <<now, potential_duplicates, user_docs, calls, engagement>>

ParseForApproval ==
    \E r \in {[content |-> ContentSalary, llm |-> LlmRaise],
              [content |-> ContentPadded, llm |-> LlmText("json", LlmExpense)]} :
        /\ \A w \in Workers : calls[w] = Idle
        /\ ParseRoom(r.content, "sms", MaxSuggestions)
        /\ parse_content_endpoint("u1", r.content, "sms", r.llm)
        /\ UNCHANGED <<now, user_docs, calls, engagement>>

BeginCreateTransaction ==
    \E w \in Workers, amount \in {40, 60} :
        /\ create_transaction_endpoint_begin(w, "u1", "expense", Rupees(amount),
                                             "Food", None)
        /\ UNCHANGED <<response, now, potential_duplicates, user_docs, engagement>>

BeginApproveSuggestion ==
    \E w \in Workers, u \in Users, sid \in SuggestionIds, a \in BOOLEAN :
        \E c \in (IF a THEN CorrectionSet ELSE {NoCorrections}) :
            /\ approve_suggestion_endpoint_begin(w, u, sid, a, c)
            /\ UNCHANGED <<response, now, potential_duplicates, user_docs, engagement>>

StepCall ==
    \E w \in Workers :
        /\ endpoint_step(w)
        /\ UNCHANGED <<response, now, potential_duplicates, user_docs, engagement>>

Crash ==
    \E w \in Workers :
        /\ InFlight(w)
        /\ calls' = [calls EXCEPT ![w] = Goto(calls[w], "crashed")]
        /\ UNCHANGED <<data, response, now, potential_duplicates, user_docs, engagement>>

SpecConcurrent ==
    Init /\ [][AllocateBudget \/ ParseForApproval \/ BeginCreateTransaction
                \/ BeginApproveSuggestion \/ StepCall \/ Crash]_vars

----------------------------------------------------------------------------
(* POST /hustles/{hustle_id}/apply: apply_to_hustle_endpoint, one store      *)
(* operation per step.  A cover message is [lead, core, trail] as a content  *)
(* is; the body is refused when HustleApplicationCreate refuses it.          *)

validate_cover_message(v) ==
    /\ v.core >= MinCoverLen
    /\ v.lead + v.core + v.trail <= MaxCoverLen

\* mutant: the collection has no unique index
create_hustle_application_unindexed(application_data) ==
    [ok |-> TRUE,
     docs |-> Append(hustle_applications,
                     [application_data EXCEPT !.id = Len(hustle_applications) + 1])]

\* database.create_hustle_application: insert_one under the unique index on
\* (hustle_id, applicant_id); ok = FALSE is the DuplicateKeyError
create_hustle_application(application_data) ==
    IF \E i \in 1..Len(hustle_applications) :
          /\ hustle_applications[i].hustle_id = application_data.hustle_id
          /\ hustle_applications[i].applicant_id = application_data.applicant_id
    THEN [ok |-> FALSE, docs |-> hustle_applications]
    ELSE [ok |-> TRUE,
          docs |-> Append(hustle_applications,
                          [application_data EXCEPT !.id = Len(hustle_applications) + 1])]

InSeq(x, seq) == \E i \in 1..Len(seq) : seq[i] = x

\* the handler up to its second await: the hustle is read and the applicants
\* list is looked at
apply_to_hustle_endpoint_begin(w, user_id, hustle_id, cover_message) ==
    LET call == [pc |-> "get_user_by_id", user_id |-> user_id,
                 hustle_id |-> hustle_id, status |-> 0, detail |-> "none"]
        answer(status, detail) ==
            [call EXCEPT !.pc = "done", !.status = status, !.detail = detail]
    IN /\ applies[w].pc \in {"idle", "done"}
       /\ applies' = [applies EXCEPT ![w] =
             IF ~validate_cover_message(cover_message)
             THEN answer(422, "validation error")
             ELSE IF hustle_id \notin Hustles
             THEN answer(404, "Hustle not found")
             ELSE IF InSeq(user_id, user_hustles[hustle_id].applicants)
             THEN answer(400, "Already applied to this hustle")
             ELSE call]
       /\ UNCHANGED <<user_hustles, hustle_applications>>

\* the next store operation of the apply request worker w handles
apply_to_hustle_endpoint_step(w) ==
    LET call == applies[w]
    IN CASE call.pc = "get_user_by_id" ->
              /\ applies' = [applies EXCEPT ![w] =
                    IF call.user_id \in Users
                    THEN Goto(call, "create_hustle_application")
                    ELSE [call EXCEPT !.pc = "done", !.status = 404,
                                      !.detail = "User not found"]]
              /\ UNCHANGED <<user_hustles, hustle_applications>>
         [] call.pc = "create_hustle_application" ->
              LET r == create_hustle_application(
                          [id |-> 0, hustle_id |-> call.hustle_id,
                           applicant_id |-> call.user_id, status |-> "pending"])
              IN /\ hustle_applications' = r.docs
                 /\ applies' = [applies EXCEPT ![w] =
                       IF r.ok THEN Goto(call, "push_applicant")
                       ELSE [call EXCEPT !.pc = "done", !.status = 500,
                                         !.detail = "Hustle application failed"]]
                 /\ UNCHANGED user_hustles
         [] call.pc = "push_applicant" ->
              \* {"$push": {"applicants": user_id}}
              /\ user_hustles' = [user_hustles EXCEPT ![call.hustle_id].applicants =
                                     Append(@, call.user_id)]
              /\ applies' = [applies EXCEPT ![w] =
                    [call EXCEPT !.pc = "done", !.status = 200,
                                 !.detail = "Application submitted successfully"]]
              /\ UNCHANGED hustle_applications
         [] OTHER -> FALSE

CoverMessages ==
    {[lead |-> 0, core |-> MinCoverLen - 1, trail |-> 0],
     [lead |-> 1, core |-> MinCoverLen, trail |-> 1],
     [lead |-> 1, core |-> MaxCoverLen, trail |-> 0]}

BeginApply ==
    \E w \in Workers, u \in Users, h \in Hustles \cup {"h9"}, m \in CoverMessages :
        /\ apply_to_hustle_endpoint_begin(w, u, h, m)
        /\ UNCHANGED <<data, response, now, potential_duplicates, user_docs, calls,
                       rewards>>

StepApply ==
    \E w \in Workers :
        /\ apply_to_hustle_endpoint_step(w)
        /\ UNCHANGED <<data, response, now, potential_duplicates, user_docs, calls,
                       rewards>>

\* the process stops between two awaited operations of an apply request
CrashApply ==
    \E w \in Workers :
        /\ applies[w].pc \notin {"idle", "done", "crashed"}
        /\ applies' = [applies EXCEPT ![w] = Goto(applies[w], "crashed")]
        /\ UNCHANGED <<data, response, now, potential_duplicates, user_docs, calls,
                       user_hustles, hustle_applications, rewards>>

SpecHustle == Init /\ [][BeginApply \/ StepApply \/ CrashApply]_vars

\* referrals, registrations, achievements and streak updates
RegisterEmails == {"asha@earnnest.in", "bina@earnnest.in"}

Register ==
    \E email \in RegisterEmails,
       referred_by \in {None} \cup {ReferralCode(k) : k \in 1..(MaxReferrals + 1)} :
        /\ register_user(email, referred_by)
        /\ UNCHANGED <<data, now, potential_duplicates, user_docs, calls, community>>

SendReferral ==
    /\ send_referral_endpoint("u1")
    /\ UNCHANGED <<data, now, potential_duplicates, user_docs, calls, community>>

AwardAchievement ==
    \E u \in DOMAIN coin_users \ {"u2"},
       a \in {"first_referral_achievement", "chai_money_saver_achievement"} :
        /\ Len(award_achievement(RewardState, u, a).txs) <= MaxCoinTransactions
        /\ Stored(award_achievement(RewardState, u, a))
        /\ UNCHANGED <<data, response, now, potential_duplicates, user_docs, calls,
                       community>>

\* one user's daily visits
VisitStreaks ==
    /\ get_user_streaks_endpoint("u1")
    /\ UNCHANGED <<data, now, potential_duplicates, user_docs, calls, community>>

SpecRewards ==
    Init /\ [][SendReferral \/ Register \/ AwardAchievement \/ VisitStreaks]_vars

TickDays ==
    /\ \E d \in 1..2 :
          /\ Date(now) + d <= MaxStreakDays
          /\ now' = now + d * MinutesPerDay
    /\ UNCHANGED <<data, response, potential_duplicates, user_docs, calls, engagement>>

SpecStreak == Init /\ [][VisitStreaks \/ TickDays]_vars

\* logins over time
Login ==
    \E email \in Emails \cup {"nobody@earnnest.in"},
       password_ok \in BOOLEAN, tz_aware \in BOOLEAN :
        /\ login_user(email, password_ok, tz_aware)
        /\ UNCHANGED <<data, now, potential_duplicates, calls, community>>

TickMinutes ==
    /\ \E d \in {LOCKOUT_DURATION - 1, LOCKOUT_DURATION} :
          /\ now + d <= MaxLoginClock
          /\ now' = now + d
    /\ UNCHANGED <<data, response, potential_duplicates, user_docs, calls, engagement>>

SpecLogin == Init /\ [][Login \/ TickMinutes]_vars

\* logins and password resets over time
ResetPassword ==
    \E email \in {None, "asha@earnnest.in", "nobody@earnnest.in"},
       new_password \in {None, "new password"},
       score \in {MinPasswordScore - 1, MinPasswordScore} :
        /\ reset_password(email, new_password, score)
        /\ UNCHANGED <<data, now, potential_duplicates, calls, engagement>>

SpecLockout == Init /\ [][Login \/ ResetPassword \/ TickMinutes]_vars

----------------------------------------------------------------------------
(* Claims *)

Last(seq) == seq[Len(seq)]

FeedbackFor(fb, suggestion_id) ==
    {i \in 1..Len(fb) : fb[i].suggestion_id = suggestion_id}

\* the suggestion with this id exists and belongs to the caller
Owns(user_id, suggestion_id) ==
    /\ get_suggestion_by_id(suggestion_id) # 0
    /\ transaction_suggestions[get_suggestion_by_id(suggestion_id)].user_id = user_id

\* the transaction an approval by the owner would create
Approved(user_id, suggestion_id, corrections) ==
    TransactionData(user_id,
                    transaction_suggestions[get_suggestion_by_id(suggestion_id)],
                    corrections)

\* C1: a suggestion is created pending; once its status is approved or
\* rejected, no later step changes the status, adds a learning feedback
\* entry for it, or creates a transaction through another approval of it.
C1_StatusChangesOnce ==
    [][/\ \A i \in 1..Len(transaction_suggestions) :
            transaction_suggestions[i].status # "pending"
            => /\ transaction_suggestions'[i].status = transaction_suggestions[i].status
               /\ FeedbackFor(learning_feedback', transaction_suggestions[i].id)
                    = FeedbackFor(learning_feedback, transaction_suggestions[i].id)
       /\ \A u \in Users, sid \in SuggestionIds, c \in CorrectionSet :
            ( /\ approve_suggestion_endpoint(u, sid, TRUE, c)
              /\ Owns(u, sid)
              /\ transaction_suggestions[get_suggestion_by_id(sid)].status # "pending" )
            => transactions' = transactions
       /\ Len(transaction_suggestions') > Len(transaction_suggestions)
            => Last(transaction_suggestions').status = "pending"
      ]_vars

\* C2: approving, as its owner, an expense suggestion whose amount after
\* corrections exceeds allocated - spent of the matching budget answers the
\* budget-exceeded error and changes no collection.
C2_OverBudgetApprovalRefused ==
    [][\A u \in Users, sid \in SuggestionIds, c \in CorrectionSet :
        ( /\ approve_suggestion_endpoint(u, sid, TRUE, c)
          /\ Owns(u, sid)
          /\ Approved(u, sid, c).type = "expense"
          /\ find_budget(u, Approved(u, sid, c).category, CurrentMonth) # 0
          /\ Approved(u, sid, c).amount
               > remaining_budget(find_budget(u, Approved(u, sid, c).category,
                                              CurrentMonth)) )
        => /\ response'.status = 400
           /\ response'.detail = "No money, you reached the limit!"
           /\ UNCHANGED data
      ]_vars

\* C3: approving, as its owner, a pending expense suggestion whose amount is
\* at most allocated - spent of the matching budget answers success, appends
\* exactly one transaction, adds the amount to that budget's spent amount
\* and sets the suggestion's status to approved.
C3_WithinBudgetApprovalSucceeds ==
    [][\A u \in Users, sid \in SuggestionIds, c \in CorrectionSet :
        LET i == get_suggestion_by_id(sid)
            td == Approved(u, sid, c)
            b == find_budget(u, td.category, CurrentMonth)
        IN ( /\ approve_suggestion_endpoint(u, sid, TRUE, c)
             /\ Owns(u, sid)
             /\ transaction_suggestions[i].status = "pending"
             /\ td.type = "expense"
             /\ b # 0
             /\ td.amount <= remaining_budget(b) )
           => /\ response'.status = 200
              /\ transactions' = create_transaction(td)
              /\ budgets' = [budgets EXCEPT ![b].spent_amount = @ + td.amount]
              /\ transaction_suggestions'[i].status = "approved"
      ]_vars

\* C4: a rejection by the owner leaves transactions and budgets as they
\* are, sets the suggestion's status to rejected and appends exactly one
\* learning feedback entry, of kind rejection, for that suggestion.
C4_RejectionEffects ==
    [][\A u \in Users, sid \in SuggestionIds, c \in CorrectionSet :
        ( /\ approve_suggestion_endpoint(u, sid, FALSE, c)
          /\ Owns(u, sid) )
        => /\ UNCHANGED <<transactions, budgets>>
           /\ transaction_suggestions'[get_suggestion_by_id(sid)].status = "rejected"
           /\ Len(learning_feedback') = Len(learning_feedback) + 1
           /\ SubSeq(learning_feedback', 1, Len(learning_feedback)) = learning_feedback
           /\ Last(learning_feedback').feedback_type = "rejection"
           /\ Last(learning_feedback').suggestion_id = sid
      ]_vars

C4_Witness ==
    /\ response.detail = "Suggestion rejected successfully"
    /\ budgets # <<>>
    /\ \E i \in 1..Len(transaction_suggestions) :
          /\ transaction_suggestions[i].status = "rejected"
          /\ learning_feedback # <<>>
          /\ Last(learning_feedback).feedback_type = "rejection"
          /\ Last(learning_feedback).suggestion_id = transaction_suggestions[i].id

\* C5: approving, as its owner, an expense suggestion for which the caller
\* has no budget of that category in the current month answers an error and
\* changes no collection.
C5_NoBudgetApprovalRefused ==
    [][\A u \in Users, sid \in SuggestionIds, c \in CorrectionSet :
        ( /\ approve_suggestion_endpoint(u, sid, TRUE, c)
          /\ Owns(u, sid)
          /\ Approved(u, sid, c).type = "expense"
          /\ find_budget(u, Approved(u, sid, c).category, CurrentMonth) = 0 )
        => /\ response'.status >= 400
           /\ UNCHANGED data
      ]_vars

C5_Witness ==
    /\ response.op = "approve_suggestion"
    /\ response.status >= 400
    /\ response.status \notin {403, 404}
    /\ \E i \in 1..Len(transaction_suggestions) :
          /\ transaction_suggestions[i].suggested_type = "expense"
          /\ transaction_suggestions[i].status = "pending"
          /\ find_budget(transaction_suggestions[i].user_id,
                         transaction_suggestions[i].suggested_category,
                         CurrentMonth) = 0

\* C6: an approval call with an unknown suggestion id answers 404, a call by
\* a user who does not own the suggestion answers 403, and either leaves
\* every collection unchanged.
C6_NotFoundAndNotAuthorized ==
    [][\A u \in Users, sid \in SuggestionIds, a \in BOOLEAN, c \in CorrectionSet :
        approve_suggestion_endpoint(u, sid, a, c)
        => /\ (\A i \in 1..Len(transaction_suggestions) :
                  transaction_suggestions[i].id # sid)
              => /\ response'.status = 404
                 /\ response'.detail = "Suggestion not found"
                 /\ UNCHANGED data
           /\ (\E i \in 1..Len(transaction_suggestions) :
                  /\ transaction_suggestions[i].id = sid
                  /\ transaction_suggestions[i].user_id # u)
              => /\ response'.status = 403
                 /\ response'.detail = "Access denied"
                 /\ UNCHANGED data
      ]_vars

C6_Witness ==
    /\ response.status = 403
    /\ response.op = "approve_suggestion"
    /\ transaction_suggestions # <<>>

C8_TransactionAmountBounded ==
    \A i \in 1..Len(transactions) :
        transactions[i].amount > 0 /\ transactions[i].amount <= MaxAmount

\* the LLM call raised, or its text is not valid JSON, or the JSON lacks a
\* required field
Degraded(llm) ==
    \/ llm.kind = "raise"
    \/ ~llm.json
    \/ llm.fence = "plain"
    \/ ~(RequiredFields \subseteq DOMAIN llm.obj)

FallbackFields ==
    {"transaction_type", "amount", "merchant_or_source", "description", "category",
     "date", "parsing_confidence"}

FallbackStored ==
    /\ response'.status = 200
    /\ Len(parsed_transactions') = Len(parsed_transactions) + 1
    /\ LET parsed_data == Last(parsed_transactions').parsed_data
       IN /\ FallbackFields \subseteq DOMAIN parsed_data
          /\ parsed_data["amount"] >= 0
          /\ parsed_data["parsing_confidence"] >= 0
          /\ parsed_data["parsing_confidence"] <= 10

\* the step stored a parse of this content for this user, as every accepted
\* request does
Parsed(user_id, content) ==
    /\ Len(parsed_transactions') = Len(parsed_transactions) + 1
    /\ Last(parsed_transactions').user_id = user_id
    /\ Last(parsed_transactions').original_content = strip(content)

\* C9: when the LLM call raises, answers text that is not valid JSON or
\* answers JSON without a required field, the request still succeeds and the
\* parsed data holds every fallback field, an amount >= 0 and a
\* parsing_confidence within [0, 1] (0..10 tenths): a step either stores
\* such a result or is no parse of a valid request with such an answer (no
\* valid request is taken once MaxSuggestions suggestions exist).
C9_FallbackOnBadAnswer ==
    [][\/ FallbackStored
       \/ Len(transaction_suggestions) >= MaxSuggestions
       \/ \A u \in Users, c \in {v \in Contents : validate_content(v)},
             t \in {"sms", "email"}, l \in {a \in LlmAnswers : Degraded(a)} :
               ~(Parsed(u, c) /\ parse_content_endpoint(u, c, t, l))
      ]_vars

C9_Witness ==
    /\ response.op = "parse_content"
    /\ response.status = 200
    /\ parsed_transactions # <<>>
    /\ "confidence_score" \notin DOMAIN Last(parsed_transactions).parsed_data
    /\ Last(parsed_transactions).parsed_data["amount"] = 45000
    /\ Last(parsed_transactions).parsed_data["transaction_type"] = "income"

RequestRefused ==
    /\ response'.status = 422
    /\ UNCHANGED data

RequestAccepted ==
    /\ response'.status = 200
    /\ llm_calls' = llm_calls + 1
    /\ Len(parsed_transactions') = Len(parsed_transactions) + 1
    /\ Len(transaction_suggestions') = Len(transaction_suggestions) + 1

\* C10 as claimed: a content whose length after trimming is below 10 or
\* above 5000 is refused before the LLM is called and before anything is
\* stored, and a content of 10 to 5000 characters after trimming is accepted.
C10_TrimmedLengthDecides ==
    [][/\ \/ RequestRefused
          \/ \A u \in Users, t \in {"sms", "email"}, l \in LlmAnswers,
                c \in {v \in Contents : \/ len(strip(v)) < MinContentLen
                                        \/ len(strip(v)) > MaxContentLen} :
                  ~parse_content_endpoint(u, c, t, l)
       /\ \/ RequestAccepted
          \/ Len(transaction_suggestions) >= MaxSuggestions
          \/ \A u \in Users, t \in {"sms", "email"}, l \in LlmAnswers,
                c \in {v \in Contents : /\ len(strip(v)) >= MinContentLen
                                        /\ len(strip(v)) <= MaxContentLen} :
                  ~parse_content_endpoint(u, c, t, l)
      ]_vars

\* C10 as amended: a content whose length after trimming is below 10, or
\* whose length before trimming is above 5000, is refused before the LLM is
\* called and before anything is stored; a content of at least 10
\* characters after trimming and at most 5000 before trimming is accepted.
C10_LengthBounds ==
    [][/\ \/ RequestRefused
          \/ \A u \in Users, t \in {"sms", "email"}, l \in LlmAnswers,
                c \in {v \in Contents : \/ len(strip(v)) < MinContentLen
                                        \/ len(v) > MaxContentLen} :
                  ~parse_content_endpoint(u, c, t, l)
       /\ \/ RequestAccepted
          \/ Len(transaction_suggestions) >= MaxSuggestions
          \/ \A u \in Users, t \in {"sms", "email"}, l \in LlmAnswers,
                c \in {v \in Contents : /\ len(strip(v)) >= MinContentLen
                                        /\ len(v) <= MaxContentLen} :
                  ~parse_content_endpoint(u, c, t, l)
      ]_vars

C10_Witness ==
    /\ response.op = "parse_content"
    /\ response.status = 422
    /\ llm_calls = 1
    /\ \E i \in 1..Len(parsed_transactions) :
          len(parsed_transactions[i].original_content) = MaxContentLen

\* the step is a parse that answered its duplicates
ParseStep == Len(parsed_transactions') = Len(parsed_transactions) + 1

Candidate == Get(Last(parsed_transactions').parsed_data, "amount", 0)

Matched(tx, reason, score) ==
    \E j \in 1..Len(potential_duplicates') :
        /\ potential_duplicates'[j].id = tx.id
        /\ potential_duplicates'[j].duplicate_reason = reason
        /\ potential_duplicates'[j].similarity_score = score

\* C11: the duplicates answered by a parse hold, tagged "Similar amount
\* within 1 week" with similarity 0.7, every transaction of the user dated
\* within the last 7 days whose amount is within 10% of the candidate amount.
C11_SimilarAmountsReturned ==
    [][ParseStep /\ Candidate > 0
        => \A i \in 1..Len(transactions) :
              ( /\ transactions[i].user_id = Last(parsed_transactions').user_id
                /\ now - transactions[i].date <= 7 * 24 * 60
                /\ 10 * Abs(transactions[i].amount - Candidate) <= Candidate )
              => Matched(transactions[i], "Similar amount within 1 week", 7)
      ]_vars

\* C12: for a candidate amount > 0, the duplicates answered by a parse hold
\* a match tagged "Same amount within 24 hours" with similarity 0.9 whenever
\* the user has a transaction of exactly that amount dated within the last
\* 24 hours, and hold no transaction of another user.
C12_SameAmountReturned ==
    [][ParseStep /\ Candidate > 0
        => /\ (\E i \in 1..Len(transactions) :
                   /\ transactions[i].user_id = Last(parsed_transactions').user_id
                   /\ transactions[i].amount = Candidate
                   /\ now - transactions[i].date <= 24 * 60)
              => \E i \in 1..Len(transactions) :
                    /\ transactions[i].user_id = Last(parsed_transactions').user_id
                    /\ transactions[i].amount = Candidate
                    /\ Matched(transactions[i], "Same amount within 24 hours", 9)
           /\ \A j \in 1..Len(potential_duplicates') :
                 potential_duplicates'[j].user_id = Last(parsed_transactions').user_id
      ]_vars

C12_Witness ==
    /\ \E j \in 1..Len(potential_duplicates) :
          /\ potential_duplicates[j].duplicate_reason = "Same amount within 24 hours"
          /\ potential_duplicates[j].similarity_score = 9
          /\ potential_duplicates[j].user_id = "u1"
          /\ now - potential_duplicates[j].date = 24 * 60
    /\ \E i \in 1..Len(transactions) :
          /\ transactions[i].user_id = "u2"
          /\ transactions[i].amount = 1000
          /\ now - transactions[i].date <= 24 * 60

\* C13: the duplicates answered by a parse hold no match tagged "Similar
\* amount within 1 week" whose amount differs from the candidate amount by
\* more than 10% of it, or whose date is more than 7 days back.
C13_NoFarOrOldMatch ==
    [][ParseStep
        => \A j \in 1..Len(potential_duplicates') :
              potential_duplicates'[j].duplicate_reason = "Similar amount within 1 week"
              => /\ 10 * Abs(potential_duplicates'[j].amount - Candidate) <= Candidate
                 /\ now - potential_duplicates'[j].date <= 7 * 24 * 60
      ]_vars

C13_Witness ==
    /\ response.op = "parse_content"
    /\ response.status = 200
    /\ parsed_transactions # <<>>
    /\ Get(Last(parsed_transactions).parsed_data, "amount", 0) = 1000
    /\ Len(transactions) = 2
    /\ \A i \in 1..Len(transactions) : transactions[i].user_id = "u1"
    /\ now - transactions[1].date > 7 * 24 * 60
    /\ now - transactions[2].date <= 7 * 24 * 60
    /\ Len(potential_duplicates) = 1
    /\ potential_duplicates[1].id = 2
    /\ potential_duplicates[1].duplicate_reason = "Similar amount within 1 week"

\* C14: once an account has 5 failed attempts, the last of them less than 30
\* minutes back, every login attempt on it, with the right password or a
\* wrong one, answers 423 with no token and leaves the account's counter and
\* every other field as they are.
C14_LockedAccountRefuses ==
    [][\A email \in Emails, password_ok \in BOOLEAN, tz_aware \in BOOLEAN :
        ( /\ user_docs[email].failed_login_attempts >= 5
          /\ user_docs[email].last_failed_login # <<>>
          /\ now - user_docs[email].last_failed_login[1] < 30
          /\ login_user(email, password_ok, tz_aware) )
        => /\ response'.status = 423
           /\ "token" \notin DOMAIN response'
           /\ UNCHANGED user_docs
      ]_vars

\* C15: a POST /transactions of a valid type whose amount lies in
\* 0 < amount <= 10,000,000 is not refused for its amount (an income is
\* created and answered 200, an expense can only be refused for its budget),
\* and one whose amount is <= 0 or > 10,000,000 is refused with a validation
\* error and changes no collection and no user total.
AmountInRange(a) ==
    /\ a.rupees > 0 \/ (a.rupees = 0 /\ a.mills > 0)
    /\ a.rupees < 10000000 \/ (a.rupees = 10000000 /\ a.mills = 0)

C15_AmountBounds ==
    [][\A type \in {"income", "expense"}, a \in BodyAmounts :
        create_transaction_endpoint("u1", type, a, "Food", None)
        => IF AmountInRange(a)
           THEN /\ response'.status \in {200, 400}
                /\ type = "income" =>
                      /\ response'.status = 200
                      /\ Len(transactions') = Len(transactions) + 1
           ELSE /\ response'.status = 422
                /\ UNCHANGED data
      ]_vars

\* C16: every stored TransactionSuggestion has a suggested type of income or
\* expense and a status of pending, approved or rejected, whatever the parser
\* did (LLM answer or rule-based fallback).
C16_SuggestionWellFormed ==
    \A i \in 1..Len(transaction_suggestions) :
        /\ transaction_suggestions[i].suggested_type \in {"income", "expense"}
        /\ transaction_suggestions[i].status \in {"pending", "approved", "rejected"}

\* C17: an approval answered with success appends exactly one learning
\* feedback entry, for the approved suggestion, of kind correction when the
\* request carried a non-empty corrections map and of kind approval
\* otherwise; its original_suggestion holds the suggestion's fields as they
\* were suggested, whatever the corrections.
C17_ApprovalFeedback ==
    [][\/ response'.detail # "Transaction approved and created successfully"
       \/ \A u \in Users, sid \in SuggestionIds, c \in CorrectionSet :
            approve_suggestion_endpoint(u, sid, TRUE, c)
            => LET suggestion == transaction_suggestions[get_suggestion_by_id(sid)]
                   entry == Last(learning_feedback')
               IN /\ Len(learning_feedback') = Len(learning_feedback) + 1
                  /\ SubSeq(learning_feedback', 1, Len(learning_feedback))
                       = learning_feedback
                  /\ entry.suggestion_id = sid
                  /\ entry.feedback_type
                       = IF c = NoCorrections THEN "approval" ELSE "correction"
                  /\ entry.original_suggestion
                       = [type |-> suggestion.suggested_type,
                          amount |-> suggestion.suggested_amount,
                          category |-> suggestion.suggested_category,
                          source |-> suggestion.suggested_source]
      ]_vars

C17_Witness ==
    /\ response.detail = "Transaction approved and created successfully"
    /\ learning_feedback # <<>>
    /\ Last(learning_feedback).feedback_type = "correction"
    /\ transactions # <<>>
    /\ Last(learning_feedback).original_suggestion.amount # Last(transactions).amount

\* worker w has answered an approval of suggestion sid that passed the
\* lookup and the ownership check while the suggestion was pending
ApprovalOf(w, sid) ==
    /\ calls[w].pc = "done"
    /\ calls[w].op = "approve_suggestion"
    /\ calls[w].approved
    /\ calls[w].suggestion_id = sid
    /\ calls[w].status \notin {404, 403}
    /\ calls[w].suggestion.status = "pending"

\* C18: two approval calls on the same suggestion that both passed the
\* lookup while it was pending both answer success, and each has created a
\* transaction of its own.
C18_BothApprovalsSucceed ==
    \A sid \in SuggestionIds :
        (ApprovalOf("w1", sid) /\ ApprovalOf("w2", sid))
        => /\ calls["w1"].status = 200
           /\ calls["w2"].status = 200
           /\ calls["w1"].transaction_id # 0
           /\ calls["w2"].transaction_id # 0
           /\ calls["w1"].transaction_id # calls["w2"].transaction_id

RECURSIVE SumAmounts(_)
SumAmounts(txs) ==
    IF txs = <<>> THEN 0 ELSE Head(txs).amount + SumAmounts(Tail(txs))

\* the expense transactions that count against budget b
ExpensesOf(b) ==
    LET Counts(tx) == /\ tx.type = "expense"
                      /\ tx.user_id = budgets[b].user_id
                      /\ tx.category = budgets[b].category
    IN SelectSeq(transactions, Counts)

\* the workers that have inserted an expense transaction against budget b
\* and have not made their increment
Owing(b) ==
    {w \in Workers : /\ calls[w].pc \in {"inc_spent_amount", "crashed"}
                     /\ calls[w].transaction_id # 0
                     /\ calls[w].budget.idx = b}

RECURSIVE SumOwed(_)
SumOwed(ws) ==
    IF ws = {} THEN 0
    ELSE LET w == CHOOSE x \in ws : TRUE
         IN calls[w].transaction_data.amount + SumOwed(ws \ {w})

\* C19: whatever the interleaving, a budget's spent amount is the sum of the
\* amounts of the expense transactions created against it, less those of
\* the requests that have not made their increment yet (or never will,
\* having stopped); once every request has answered, nothing is missing.
\* The budget of a user, category and month is the one find_one answers.
C19_NoLostIncrement ==
    \A b \in 1..Len(budgets) :
        find_budget(budgets[b].user_id, budgets[b].category, budgets[b].month) = b
        => budgets[b].spent_amount + SumOwed(Owing(b)) = SumAmounts(ExpensesOf(b))

C19_Witness ==
    /\ \A w \in Workers : /\ calls[w].pc = "done"
                           /\ calls[w].op = "create_transaction"
                           /\ calls[w].status = 200
                           /\ calls[w].budget.spent_amount = 0
    /\ budgets # <<>>
    /\ budgets[1].spent_amount = 100

\* the transaction worker w has inserted is in the collection
Persisted(w) ==
    /\ calls[w].transaction_id # 0
    /\ \E i \in 1..Len(transactions) : transactions[i].id = calls[w].transaction_id

\* C20: a step that raises a budget's spent amount, or that marks a
\* suggestion approved, is made by a request whose transaction is already
\* in the collection; stopping between the writes leaves the transaction
\* there with the spent amount short of it.
C20_TransactionFirst ==
    [][\A w \in Workers :
        ( /\ calls'[w] # calls[w]
          /\ \/ \E b \in 1..Len(budgets) :
                   budgets'[b].spent_amount # budgets[b].spent_amount
             \/ \E i \in 1..Len(transaction_suggestions) :
                   /\ transaction_suggestions[i].status # "approved"
                   /\ transaction_suggestions'[i].status = "approved" )
        => Persisted(w)
      ]_vars

C20_Witness ==
    \E w \in Workers :
        /\ calls[w].pc = "crashed"
        /\ calls[w].op = "create_transaction"
        /\ Persisted(w)
        /\ \A v \in Workers \ {w} : calls[v].pc = "idle"
        /\ budgets[calls[w].budget.idx].spent_amount = 0
        /\ SumAmounts(ExpensesOf(calls[w].budget.idx)) > 0

\* the entries of the answered duplicates that are transaction tx with that tag
Entries(tx, reason, score) ==
    {j \in 1..Len(potential_duplicates') :
        /\ potential_duplicates'[j].id = tx.id
        /\ potential_duplicates'[j].duplicate_reason = reason
        /\ potential_duplicates'[j].similarity_score = score}

\* the user's transactions of exactly the candidate amount dated within the
\* last 7 days
WeekExact ==
    {i \in 1..Len(transactions) :
        /\ transactions[i].user_id = Last(parsed_transactions').user_id
        /\ transactions[i].amount = Candidate
        /\ now - transactions[i].date <= 7 * 24 * 60}

\* C21 as stated: a transaction of the user with exactly the candidate
\* amount dated within the last 24 hours is in the duplicates twice, once
\* tagged "Same amount within 24 hours" (0.9) and once tagged "Similar
\* amount within 1 week" (0.7).
C21_MatchedTwice ==
    [][ParseStep /\ Candidate > 0
        => \A i \in WeekExact :
              now - transactions[i].date <= 24 * 60
              => /\ Matched(transactions[i], "Same amount within 24 hours", 9)
                 /\ Matched(transactions[i], "Similar amount within 1 week", 7)
      ]_vars

\* C21 amended: when the user has at most 10 transactions of exactly the
\* candidate amount dated within the last 7 days, each of them dated within
\* the last 24 hours is in the duplicates exactly twice, once under each tag.
C21_MatchedTwiceWithinLimit ==
    [][ParseStep /\ Candidate > 0 /\ Cardinality(WeekExact) <= 10
        => \A i \in WeekExact :
              now - transactions[i].date <= 24 * 60
              => /\ Cardinality(Entries(transactions[i],
                                        "Same amount within 24 hours", 9)) = 1
                 /\ Cardinality(Entries(transactions[i],
                                        "Similar amount within 1 week", 7)) = 1
      ]_vars

C21_Witness ==
    /\ response.op = "parse_content"
    /\ response.status = 200
    /\ Len(transactions) = 10
    /\ now - transactions[1].date = 7 * 24 * 60
    /\ Len(potential_duplicates) = 11
    /\ potential_duplicates[1].id = 10
    /\ potential_duplicates[1].similarity_score = 9
    /\ potential_duplicates[11].id = 10
    /\ potential_duplicates[11].similarity_score = 7

\* C22: the confidence stored on every ParsedTransaction and on every
\* TransactionSuggestion lies within [0, 1] (0..10 tenths), whatever
\* parsing_confidence the LLM reported.
C22_ConfidenceWithinUnit ==
    /\ \A i \in 1..Len(parsed_transactions) :
          parsed_transactions[i].confidence_score \in 0..10
    /\ \A i \in 1..Len(transaction_suggestions) :
          transaction_suggestions[i].confidence_score \in 0..10

\* a parse that went through the fallback: parse_content adds confidence_score
\* on the LLM path only
FellBack(p) == "confidence_score" \notin DOMAIN p.parsed_data

\* a currency marker next to a number, or "amount" followed by a number
CurrencyAmountIn(words) ==
    \E i \in 1..(Len(words) - 1) :
        \/ IsCurrency(words[i]) /\ words[i + 1] \in NumberWords
        \/ words[i] \in NumberWords /\ IsCurrency(words[i + 1])
        \/ lower(words[i]) \in {"amount", "amount:"} /\ words[i + 1] \in NumberWords

KeywordIn(keywords, words) ==
    \E i \in 1..Len(words) : KeywordsIn(words[i]) \cap keywords # {}

FallbackRules(p) ==
    LET d == p.parsed_data
        words == p.original_content.words
    IN /\ d.parsing_confidence = IF CurrencyAmountIn(words) THEN 6 ELSE 3
       /\ d.transaction_type =
             IF KeywordIn(income_keywords, words) THEN "income"
             ELSE IF KeywordIn(expense_keywords, words) THEN "expense"
             ELSE "unknown"
       /\ d.income_source # None => d.transaction_type = "income"

\* C23: a fallback parse has parsing_confidence 0.6 exactly when a currency
\* amount was extracted and 0.3 otherwise, type income / expense / unknown by
\* the keyword lists (income first), an income_source only for income, and
\* category "Other".
C23_FallbackCategoryOther ==
    \A i \in 1..Len(parsed_transactions) :
        FellBack(parsed_transactions[i]) =>
            /\ FallbackRules(parsed_transactions[i])
            /\ parsed_transactions[i].parsed_data.category = "Other"

\* C23 (amended): as above, with category "Income" for income, "Expense" for
\* expense and "Other" only when the type is unknown.
C23_FallbackRules ==
    \A i \in 1..Len(parsed_transactions) :
        FellBack(parsed_transactions[i]) =>
            /\ FallbackRules(parsed_transactions[i])
            /\ parsed_transactions[i].parsed_data.category =
                  CASE parsed_transactions[i].parsed_data.transaction_type = "income"
                         -> "Income"
                    [] parsed_transactions[i].parsed_data.transaction_type = "expense"
                         -> "Expense"
                    [] OTHER -> "Other"

C23_Witness ==
    \E i \in 1..Len(parsed_transactions) :
        /\ FellBack(parsed_transactions[i])
        /\ parsed_transactions[i].parsed_data.parsing_confidence = 6
        /\ parsed_transactions[i].parsed_data.amount = 500
        /\ parsed_transactions[i].parsed_data.transaction_type = "income"
        /\ parsed_transactions[i].parsed_data.income_source = "salary"
        /\ parsed_transactions[i].parsed_data.category = "Income"

\* the income sources one of whose keywords occurs in the description or in
\* the merchant of the parsed data
SourcesMatching(d) ==
    {src \in {income_source_names[i] : i \in 1..Len(income_source_names)} :
        \E k \in income_sources(src) :
            \/ Occurs(k, d.description.words)
            \/ k \in KeywordsIn(d.merchant_or_source)}

Parsed200 ==
    /\ response.op = "parse_content"
    /\ response.status = 200

NotIncome(d, cs) ==
    /\ d.transaction_type = "expense" =>
          /\ Len(cs.categories) = 9
          /\ cs.confidence = 6
    /\ d.transaction_type \notin {"income", "expense"} =>
          cs = [categories |-> <<>>, sources |-> <<>>, confidence |-> 0]

\* C24: the categorization returned with a parse offers, for income, one
\* source with confidence 0.8 when the keywords of exactly one source occur
\* in description and merchant and all five sources with 0.4 otherwise; for
\* expense the nine categories with 0.6; for any other type empty lists and 0.
C24_ExactlyOneSource ==
    Parsed200 =>
        LET d == Last(parsed_transactions).parsed_data
            cs == response.categorization_suggestions
        IN /\ NotIncome(d, cs)
           /\ d.transaction_type = "income" =>
                 IF Cardinality(SourcesMatching(d)) = 1
                 THEN /\ Len(cs.sources) = 1
                      /\ cs.sources[1] \in SourcesMatching(d)
                      /\ cs.confidence = 8
                 ELSE /\ cs.sources = income_source_names
                      /\ cs.confidence = 4

\* C24 (amended): for income, one source with confidence 0.8 when the
\* keywords of at least one source occur (the first such source in the order
\* freelance, salary, scholarship, investment, part_time), all five with 0.4
\* when none does; the other types as above.
C24_FirstSource ==
    Parsed200 =>
        LET d == Last(parsed_transactions).parsed_data
            cs == response.categorization_suggestions
        IN /\ NotIncome(d, cs)
           /\ d.transaction_type = "income" =>
                 IF SourcesMatching(d) # {}
                 THEN /\ Len(cs.sources) = 1
                      /\ cs.sources[1] \in SourcesMatching(d)
                      /\ \A i \in 1..Len(income_source_names) :
                            income_source_names[i] \in SourcesMatching(d) =>
                              \E j \in 1..i : income_source_names[j] = cs.sources[1]
                      /\ cs.confidence = 8
                 ELSE /\ cs.sources = income_source_names
                      /\ cs.confidence = 4

C24_Witness ==
    /\ Parsed200
    /\ Last(parsed_transactions).parsed_data.transaction_type = "income"
    /\ SourcesMatching(Last(parsed_transactions).parsed_data) = {"freelance", "salary"}
    /\ Last(parsed_transactions).parsed_data.merchant_or_source = "Upwork"
    /\ response.categorization_suggestions.sources = <<"freelance">>
    /\ response.categorization_suggestions.confidence = 8

ReferencesTo(suggestions, parsed_id) ==
    {i \in 1..Len(suggestions) : suggestions[i].parsed_transaction_id = parsed_id}

\* C25: a successful parse-content request adds exactly one ParsedTransaction
\* and exactly one TransactionSuggestion referencing it; every
\* ParsedTransaction is then referenced by at most one suggestion; no step
\* (parse, approve, reject) changes or removes a stored ParsedTransaction.
C25_OneSuggestionPerParse ==
    [][/\ (response'.op = "parse_content" /\ response'.status = 200
            /\ llm_calls' = llm_calls + 1) =>
              /\ Len(parsed_transactions') = Len(parsed_transactions) + 1
              /\ Len(transaction_suggestions') = Len(transaction_suggestions) + 1
              /\ Last(transaction_suggestions').parsed_transaction_id
                    = Last(parsed_transactions').id
       /\ \A i \in 1..Len(parsed_transactions') :
              Cardinality(ReferencesTo(transaction_suggestions',
                                       parsed_transactions'[i].id)) <= 1
       /\ Len(parsed_transactions') >= Len(parsed_transactions)
       /\ \A i \in 1..Len(parsed_transactions) :
              parsed_transactions'[i] = parsed_transactions[i]]_vars

\* two imports, the first approved and the second rejected
C25_Witness ==
    /\ Len(parsed_transactions) = 2
    /\ Len(transaction_suggestions) = 2
    /\ transaction_suggestions[1].status = "approved"
    /\ transaction_suggestions[2].status = "rejected"
    /\ transaction_suggestions[1].parsed_transaction_id = 1
    /\ transaction_suggestions[2].parsed_transaction_id = 2

Occurrences(x, seq) == Cardinality({i \in 1..Len(seq) : seq[i] = x})

ApplicationsOf(h, u) ==
    {i \in 1..Len(hustle_applications) :
        /\ hustle_applications[i].hustle_id = h
        /\ hustle_applications[i].applicant_id = u}

AppliedAtMostOnce ==
    \A h \in Hustles, u \in Users :
        /\ Occurrences(u, user_hustles[h].applicants) <= 1
        /\ Cardinality(ApplicationsOf(h, u)) <= 1

\* worker w takes up an apply request of a user who is already among the
\* applicants of the hustle
AppliesAgain(w) ==
    /\ applies[w].pc \in {"idle", "done"}
    /\ applies'[w] # applies[w]
    /\ applies'[w].hustle_id \in Hustles
    /\ InSeq(applies'[w].user_id, user_hustles[applies'[w].hustle_id].applicants)

\* C26: in every interleaving of apply requests a hustle's applicants list
\* holds each user id at most once and there is at most one application per
\* (hustle, user); an apply by a user whose earlier apply to that hustle
\* succeeded is refused (422 for a refused body, else 400 "Already applied to
\* this hustle") and changes neither collection.
C26_AppliesAtMostOnce ==
    [][/\ AppliedAtMostOnce'
       /\ \A w \in Workers :
             AppliesAgain(w) =>
                /\ applies'[w].pc = "done"
                /\ \/ applies'[w].status = 422
                   \/ /\ applies'[w].status = 400
                      /\ applies'[w].detail = "Already applied to this hustle"
                /\ UNCHANGED <<user_hustles, hustle_applications>>]_vars

\* two requests of one user raced: one succeeded, the other was stopped by
\* the unique index, and a later one has been answered "already applied"
C26_Witness ==
    /\ user_hustles["h1"].applicants = <<"u1">>
    /\ Cardinality(ApplicationsOf("h1", "u1")) = 1
    /\ applies["w1"].pc = "done" /\ applies["w1"].status = 400
    /\ applies["w1"].user_id = "u1" /\ applies["w1"].hustle_id = "h1"
    /\ applies["w2"].pc = "done" /\ applies["w2"].status = 500
    /\ applies["w2"].user_id = "u1" /\ applies["w2"].hustle_id = "h1"

\* C27: a Transaction created by an approval carries the user id of the
\* caller (the user recorded on the approval's learning feedback) and an id
\* that no stored Transaction has, whatever the corrections hold.
C27_ApprovedTransactionOwnedByCaller ==
    [][(/\ response'.op = "approve_suggestion"
        /\ response'.status = 200
        /\ Len(transactions') = Len(transactions) + 1) =>
          /\ Last(transactions').user_id = Last(learning_feedback').user_id
          /\ \A i \in 1..Len(transactions) :
                transactions[i].id # Last(transactions').id]_vars

RECURSIVE SumCoins(_, _, _)
\* the sum of the amounts of the user's coin transactions of one type
SumCoins(txs, user_id, type) ==
    IF txs = <<>> THEN 0
    ELSE (IF Head(txs).user_id = user_id /\ Head(txs).type = type
          THEN Head(txs).amount ELSE 0)
         + SumCoins(Tail(txs), user_id, type)

\* C28: every user's earn_coins_balance equals the sum of the user's earned
\* coin transactions minus the sum of the spent ones.
C28_BalanceIsLedgerSum ==
    \A id \in DOMAIN coin_users :
        coin_users[id].earn_coins_balance =
            SumCoins(earncoins_transactions, id, "earned")
            - SumCoins(earncoins_transactions, id, "spent")

MilestoneAwards(user_id, milestone) ==
    {i \in 1..Len(earncoins_transactions) :
        /\ earncoins_transactions[i].user_id = user_id
        /\ earncoins_transactions[i].source = "streak"
        /\ earncoins_transactions[i].reference_id = StreakReference(milestone)}

\* C29: the coin reward of a daily-login milestone is awarded at most once
\* per user and milestone, and an update on the day of the last activity
\* changes neither the streak counters nor the coin collections.
C29_MilestoneAwardedOnce ==
    [][/\ \A u \in DOMAIN coin_users', m \in StreakMilestones :
             Cardinality(MilestoneAwards(u, m)') <= 1
       /\ \A u \in DOMAIN user_streaks :
             (now' = now /\ Date(user_streaks[u].last_activity_date) = Date(now)) =>
                /\ user_streaks'[u] = user_streaks[u]
                /\ UNCHANGED <<coin_users, earncoins_transactions>>]_vars

LockoutElapsed(email) ==
    /\ user_docs[email].failed_login_attempts >= MAX_LOGIN_ATTEMPTS
    /\ user_docs[email].last_failed_login # <<>>
    /\ now - user_docs[email].last_failed_login[1] >= LOCKOUT_DURATION

\* C30: the failed-login counter returns to 0 only in a step answered 200 by
\* login or reset-password; once the 30 minutes after the fifth failure have
\* elapsed, a login with the right password answers 200 and resets the
\* counter, and a login with a wrong password leaves the account locked.
C30_LockoutExpiry ==
    [][/\ \A email \in Emails :
             (/\ user_docs[email].failed_login_attempts > 0
              /\ user_docs'[email].failed_login_attempts = 0) =>
                /\ response'.op \in {"login", "reset_password"}
                /\ response'.status = 200
       /\ \A tz_aware \in BOOLEAN :
             (/\ LockoutElapsed("asha@earnnest.in")
              /\ login_user("asha@earnnest.in", TRUE, tz_aware)) =>
                /\ response'.status = 200
                /\ user_docs'["asha@earnnest.in"].failed_login_attempts = 0
       /\ \A tz_aware \in BOOLEAN :
             (/\ LockoutElapsed("asha@earnnest.in")
              /\ login_user("asha@earnnest.in", FALSE, tz_aware)) =>
                /\ response'.status = 401
                /\ is_account_locked(
                      user_docs'["asha@earnnest.in"].failed_login_attempts,
                      user_docs'["asha@earnnest.in"].last_failed_login)]_vars

====
